---- MODULE Spec2Model ----
(***************************************************************************)
(* Live WebSocket ingestion of src-tauri/src/commands/live_data.rs:        *)
(* the connection registry, the listener tasks, the per-court cache with   *)
(* its staleness sweep, and the commands that read and write them.         *)
(*                                                                         *)
(* Every `.await` of the source is a step boundary: a tokio mutex is       *)
(* acquired by the step that follows the await, and a task that            *)
(* stop_websocket_listener aborted is dropped at one of its awaits.        *)
(***************************************************************************)
EXTENDS Integers, Sequences, FiniteSets, TLC

(* ------------------------------------------------------------------ *)
(* Bounds of the model                                                *)
(* ------------------------------------------------------------------ *)
\* frames buffered on one transport and not yet read
MaxInbox == 1
\* advances of the monotonic clock
MaxTicks == 3
\* transports ever opened by connect_websocket and attempt_reconnection
MaxHandles == 2
\* highest sequence number the peer puts in an update
MaxScore == 100
\* frames of one burst the peer has sent ahead of the listener
MaxBurst == 2
\* updates of one numbered burst
MaxSeq == 3
\* failed syncs the background task counts
MaxErrors == 1

(* ------------------------------------------------------------------ *)
(* Program constants                                                  *)
(* ------------------------------------------------------------------ *)
\* cleanup_old_data: timeout_duration, seconds
CleanupTimeoutSecs == 300
\* get_active_court_data: active_timeout, seconds
ActiveTimeoutSecs == 300
\* listener: "if latest_data_by_court.len() % 100 == 0"
CleanupEvery == 100
\* CourtSyncState::default: interval_ms
DefaultIntervalMs == 2000
\* cleanup_expired_data: max_age, seconds
MaxAgeSecs == 300

(* ------------------------------------------------------------------ *)
(* Identifiers                                                        *)
(* ------------------------------------------------------------------ *)
ConnIds   == {"A", "B", "C"}
TaskIds   == {"t1", "t2"}
CallerIds == {"u1", "u2"}
Free      == "free"
NoTask    == "none"

(* ------------------------------------------------------------------ *)
(* Strings that the code inspects character by character              *)
(* ------------------------------------------------------------------ *)
\* char::is_whitespace on the characters the model uses
IsWhitespace(ch) == ch \in {" ", "\t"}

RECURSIVE TrimStart(_)
\* str::trim_start
TrimStart(s) ==
    IF s # <<>> /\ IsWhitespace(Head(s)) THEN TrimStart(Tail(s)) ELSE s

RECURSIVE TrimEnd(_)
\* str::trim_end
TrimEnd(s) ==
    IF s # <<>> /\ IsWhitespace(s[Len(s)])
    THEN TrimEnd(SubSeq(s, 1, Len(s) - 1))
    ELSE s

\* str::trim
Trim(s) == TrimEnd(TrimStart(s))

(* ------------------------------------------------------------------ *)
(* JSON documents (serde_json::Value), restricted to the shapes the   *)
(* listener looks at: a message object with optional "type" and       *)
(* "data", a data value with optional "court" plus one opaque field.  *)
(* ------------------------------------------------------------------ *)
JAbsent == [t |-> "absent", s |-> <<>>]
JNumber == [t |-> "num", s |-> <<>>]
JStr(s) == [t |-> "str", s |-> s]

\* Value::as_str
AsStr(v) == IF v.t = "str" THEN v ELSE JAbsent

\* the "data" member: an object {"court": court, "score": score}
\* (either member may be absent), a non-object value, or absent
DataObj(court, score) == [t |-> "obj", court |-> court, score |-> score]
DataScalar == [t |-> "num", court |-> JAbsent, score |-> 0]
DataAbsent == [t |-> "absent", court |-> JAbsent, score |-> 0]

\* Value::get("court") on the data value: None unless it is an object
GetCourt(d) == IF d.t = "obj" THEN d.court ELSE JAbsent

\* a text payload: valid = serde_json::from_str succeeds
Doc(type, data) == [valid |-> TRUE, type |-> type, data |-> data]
DocInvalid == [valid |-> FALSE, type |-> JAbsent, data |-> DataAbsent]

MATCH == <<"M", "A", "T", "C", "H">>
HEARTBEAT == <<"h", "e", "a", "r", "t", "b", "e", "a", "t">>

\* tungstenite Message variants, plus the two ways a read ends
\* (Some(Err(e)) and None)
Frame(kind, doc) == [kind |-> kind, doc |-> doc]
TextFrame(doc) == Frame("text", doc)
MatchFrame(court, score) == TextFrame(Doc(JStr(MATCH), DataObj(court, score)))
HeartbeatFrame == TextFrame(Doc(JStr(HEARTBEAT), DataAbsent))
CloseFrame == Frame("close", DocInvalid)
ErrorEvent == Frame("error", DocInvalid)
EndEvent == Frame("end", DocInvalid)

(* ------------------------------------------------------------------ *)
(* URLs                                                               *)
(* ------------------------------------------------------------------ *)
WS == <<"w", "s", ":", "/", "/">>
WSS == <<"w", "s", "s", ":", "/", "/">>

\* str::starts_with
StartsWith(s, prefix) ==
    /\ Len(s) >= Len(prefix)
    /\ SubSeq(s, 1, Len(prefix)) = prefix

RECURSIVE Replace(_, _, _)
\* str::replace: every non-overlapping match, left to right
Replace(s, from, to) ==
    IF s = <<>> THEN <<>>
    ELSE IF StartsWith(s, from)
    THEN to \o Replace(SubSeq(s, Len(from) + 1, Len(s)), from, to)
    ELSE <<Head(s)>> \o Replace(Tail(s), from, to)

\* "Ensure URL starts with wss://"
NormalizeUrl(ws_url) ==
    IF StartsWith(ws_url, WS) THEN Replace(ws_url, WS, WSS)
    ELSE IF ~StartsWith(ws_url, WSS) THEN WSS \o ws_url
    ELSE ws_url

RECURSIVE HostOf(_)
\* the authority of the part after the scheme: up to the first "/"
HostOf(rest) ==
    IF rest = <<>> \/ Head(rest) = "/" THEN <<>>
    ELSE <<Head(rest)>> \o HostOf(Tail(rest))

\* a parser that accepts an empty host
UrlParsesAnyHost(url) == StartsWith(url, WSS)

\* url::Url::parse on a wss:// URL: the host must be non-empty and hold
\* no forbidden character (a space, among the characters modelled)
UrlParses(url) ==
    /\ StartsWith(url, WSS)
    /\ LET host == HostOf(SubSeq(url, Len(WSS) + 1, Len(url)))
       IN host # <<>> /\ \A i \in 1..Len(host) : host[i] # " "

CourtA == <<"A">>
CourtB == <<"B">>
CourtBlank == <<" ", " ">>
CourtEmpty == <<>>


(* ------------------------------------------------------------------ *)
(* Message::Text branch of the listener: what a text payload stores   *)
(* ------------------------------------------------------------------ *)
NoStore == [store |-> FALSE, court |-> <<>>, data |-> DataAbsent]

\* mutant of TextOutcome: the blank-court test is missing
TextOutcomeBlankStored(doc) ==
    IF ~doc.valid THEN NoStore
    ELSE IF doc.type # JStr(MATCH) THEN NoStore
    ELSE IF AsStr(GetCourt(doc.data)) = JAbsent THEN NoStore
    ELSE [store |-> TRUE,
          court |-> AsStr(GetCourt(doc.data)).s,
          data  |-> doc.data]

\* a Text branch that tests the court with is_empty() only, without trim()
TextOutcomeEmptyOnly(doc) ==
    IF ~doc.valid THEN NoStore
    ELSE IF doc.type # JStr(MATCH) THEN NoStore
    ELSE IF AsStr(GetCourt(doc.data)) = JAbsent THEN NoStore
    ELSE IF AsStr(GetCourt(doc.data)).s = <<>> THEN NoStore
    ELSE [store |-> TRUE,
          court |-> AsStr(GetCourt(doc.data)).s,
          data  |-> doc.data]

\* the nested if-lets of the Text branch, in source order
TextOutcome(doc) ==
    IF ~doc.valid THEN NoStore
    ELSE IF doc.type = JAbsent THEN NoStore
    ELSE IF doc.type # JStr(MATCH) THEN NoStore
    ELSE IF doc.data.t = "absent" THEN NoStore
    ELSE IF GetCourt(doc.data) = JAbsent THEN NoStore
    ELSE IF AsStr(GetCourt(doc.data)) = JAbsent THEN NoStore
    ELSE IF Trim(AsStr(GetCourt(doc.data)).s) = <<>> THEN NoStore
    ELSE [store |-> TRUE,
          court |-> AsStr(GetCourt(doc.data)).s,
          data  |-> doc.data]

\* seconds slept before attempt_reconnection, by what ended the read
CloseDelaySecs == 5
ErrorDelaySecs == 3
EndDelaySecs == 2

ReconnectDelay(kind) ==
    CASE kind = "close" -> CloseDelaySecs
      [] kind = "error" -> ErrorDelaySecs
      [] OTHER -> EndDelaySecs

\* a match that treats a text message of another type as a failure of
\* the transport
FrameOutcomeUnknownTypeFatal(f) ==
    IF f.kind = "text" THEN
        IF TextOutcome(f.doc).store THEN "store"
        ELSE IF f.doc.valid /\ f.doc.type \notin {JAbsent, JStr(MATCH)}
        THEN "reconnect"
        ELSE "skip"
    ELSE IF f.kind \in {"close", "error", "end"} THEN "reconnect"
    ELSE "skip"

\* a match that answers a message that is neither text nor close by
\* reconnecting
FrameOutcomeControlFatal(f) ==
    IF f.kind = "text" THEN
        IF TextOutcome(f.doc).store THEN "store" ELSE "skip"
    ELSE "reconnect"

\* the match on the received message: store, reconnect or fall through
FrameOutcome(f) ==
    IF f.kind = "text" THEN
        IF TextOutcome(f.doc).store THEN "store" ELSE "skip"
    ELSE IF f.kind \in {"close", "error", "end"} THEN "reconnect"
    ELSE "skip"

(* ------------------------------------------------------------------ *)
(* State                                                              *)
(* ------------------------------------------------------------------ *)
VARIABLES
    connections,            \* WEBSOCKET_CONNECTIONS: id -> transport
    listeners,              \* MESSAGE_LISTENERS: id -> JoinHandle (task)
    latest_data_by_court,   \* LATEST_DATA_BY_COURT: court -> data
    last_update,            \* LAST_DATA_UPDATE: court -> Instant
    connLock,               \* owner of the WEBSOCKET_CONNECTIONS mutex
    listenersLock,          \* owner of the MESSAGE_LISTENERS mutex
    dataLock,               \* owner of the LATEST_DATA_BY_COURT mutex
    updateLock,             \* owner of the LAST_DATA_UPDATE mutex
    task,                   \* the spawned listener futures
    caller,                 \* the command invocations in progress
    inbox,                  \* frames the peer sent on id's transport
    now,                    \* std::time::Instant::now(), seconds
    ticks,                  \* clock advances so far
    handles,                \* transports opened so far
    filterArg,              \* history: _court_filter of id's last connect
    syncLock,               \* owner of the COURT_DATA_SYNC mutex
    stateLock,              \* owner of the CourtDataSync.state mutex
    managerLock,            \* owner of the CourtDataSync.data_manager mutex
    sync_state,             \* CourtSyncState
    data_manager,           \* CourtDataManager
    sync_task               \* the spawned background sync futures

vars == <<connections, listeners, latest_data_by_court, last_update,
          connLock, listenersLock, dataLock, updateLock, task, caller,
          inbox, now, ticks, handles, filterArg, syncLock, stateLock,
          managerLock, sync_state, data_manager, sync_task>>

lockVars == <<connLock, listenersLock, dataLock, updateLock>>
cacheVars == <<latest_data_by_court, last_update>>
clockVars == <<now, ticks>>
syncVars == <<syncLock, stateLock, managerLock, sync_state, data_manager,
              sync_task>>

EmptyMap == [k \in {} |-> k]

\* HashMap::insert
Insert(m, k, v) == (k :> v) @@ m
\* HashMap::remove of every key in ks
RemoveAll(m, ks) == [k \in DOMAIN m \ ks |-> m[k]]

NoHandle == [n |-> 0, url |-> <<>>, ended |-> FALSE]
NoFilter == <<"-">>

NoFrame == Frame("none", DocInvalid)

\* orphaned is history: a disconnect removed the connection of the task
\* while it was running. skipped is history: the message of the iteration
\* that has just ended without a write or a reconnection, kept until the
\* next iteration locks the registry
FreeTask == [pc |-> "free", id |-> "", cancelled |-> FALSE,
             frame |-> NoFrame, delay |-> 0, handle |-> NoHandle,
             orphaned |-> FALSE, skipped |-> NoFrame]

\* CourtSyncStatus before get_court_sync_status has filled it
NoSyncStatus ==
    [is_running |-> FALSE, interval_ms |-> 0,
     last_sync |-> [some |-> FALSE, at |-> 0], active_courts |-> <<>>,
     stored_courts |-> {}, error_count |-> 0]

NoRet == [status |-> "none", found |-> FALSE, value |-> DataAbsent,
          courts |-> EmptyMap, count |-> 0, removed |-> 0,
          connection_count |-> 0, sync_status |-> NoSyncStatus]
\* court_data and stage are the locals of perform_sync run by
\* trigger_manual_sync, interval_ms the argument of start_court_data_sync
IdleCaller == [pc |-> "idle", op |-> "", id |-> "", court |-> <<>>,
               requested |-> <<>>, filter |-> NoFilter, ws_url |-> <<>>,
               handle |-> NoHandle, ret |-> NoRet,
               court_data |-> EmptyMap, stage |-> "", interval_ms |-> 0]

(* ------------------------------------------------------------------ *)
(* The court-data sync service (court_data_sync.rs)                   *)
(* ------------------------------------------------------------------ *)
SyncTaskIds == {"s1", "s2"}

\* Option<DateTime<Utc>>
NoInstant == [some |-> FALSE, at |-> 0]
Instant(t) == [some |-> TRUE, at |-> t]

\* Option<JoinHandle<()>>::None
NoSyncTask == ""

\* CourtSyncState::default()
CourtSyncStateDefault ==
    [is_running |-> FALSE, interval_ms |-> DefaultIntervalMs,
     last_sync |-> NoInstant, active_courts |-> <<>>,
     sync_task |-> NoSyncTask, error_count |-> 0]

\* CourtDataManager::new
CourtDataManagerNew == [data |-> EmptyMap, has_changes |-> FALSE]

\* a slot no background future occupies; court_data and stage are the
\* locals of perform_sync
FreeSyncTask == [pc |-> "free", cancelled |-> FALSE,
                 court_data |-> EmptyMap, stage |-> ""]

\* COURT_DATA_SYNC as lazy_static builds it
InitSync ==
    /\ syncLock = Free
    /\ stateLock = Free
    /\ managerLock = Free
    /\ sync_state = CourtSyncStateDefault
    /\ data_manager = CourtDataManagerNew
    /\ sync_task = [s \in SyncTaskIds |-> FreeSyncTask]

Init ==
    /\ connections = EmptyMap
    /\ listeners = EmptyMap
    /\ latest_data_by_court = EmptyMap
    /\ last_update = EmptyMap
    /\ connLock = Free
    /\ listenersLock = Free
    /\ dataLock = Free
    /\ updateLock = Free
    /\ task = [t \in TaskIds |-> FreeTask]
    /\ caller = [u \in CallerIds |-> IdleCaller]
    /\ inbox = [id \in ConnIds |-> <<>>]
    /\ now = 0
    /\ ticks = 0
    /\ handles = 0
    /\ filterArg = [id \in ConnIds |-> NoFilter]
    /\ InitSync


(* ------------------------------------------------------------------ *)
(* Mutex guards                                                       *)
(* ------------------------------------------------------------------ *)
\* a guard of p going out of scope
Unlock(lock, p) == IF lock = p THEN Free ELSE lock

\* every guard p holds is dropped with p's future
DropGuards(p) ==
    /\ connLock' = Unlock(connLock, p)
    /\ listenersLock' = Unlock(listenersLock, p)
    /\ dataLock' = Unlock(dataLock, p)
    /\ updateLock' = Unlock(updateLock, p)

(* ------------------------------------------------------------------ *)
(* Task scheduling                                                    *)
(* ------------------------------------------------------------------ *)
Running(t) == task[t].pc \notin {"free", "done"}

\* what ws_stream.next().await yields: the next frame, or None once the
\* stream has ended
NextReady(id) == inbox[id] # <<>> \/ connections[id].ended
\* a read that yields the newest buffered frame instead of the oldest
NextFrameNewest(id) ==
    IF inbox[id] # <<>> THEN inbox[id][Len(inbox[id])] ELSE EndEvent

NextFrame(id) == IF inbox[id] # <<>> THEN Head(inbox[id]) ELSE EndEvent

\* whether the await t stands at completes without suspending t: a
\* free mutex, a frame already buffered. A timer or a handshake always
\* suspends the task first.
ReadyNow(t) ==
    CASE task[t].pc = "loop" -> connLock = Free
      [] task[t].pc = "next" -> NextReady(task[t].id)
      [] task[t].pc = "lock_data" -> dataLock = Free
      [] task[t].pc = "lock_update" -> updateLock = Free
      [] task[t].pc = "store_connection" -> connLock = Free
      [] task[t].pc = "cleanup_lock_data" -> dataLock = Free
      [] task[t].pc = "cleanup_lock_update" -> updateLock = Free
      [] OTHER -> FALSE

SyncRunning(s) == sync_task[s].pc # "free"

\* whether the await background task s stands at completes without
\* suspending it: the first tick of an interval, a free mutex. A later
\* tick or a file write suspends the task first.
SyncReadyNow(s) ==
    CASE sync_task[s].pc = "first_tick" -> TRUE
      [] sync_task[s].pc \in {"lock_state", "sync_lock_state",
                              "error_lock_state"} -> stateLock = Free
      [] sync_task[s].pc = "fetch_lock_data" -> dataLock = Free
      [] sync_task[s].pc = "fetch_lock_update" -> updateLock = Free
      [] sync_task[s].pc = "lock_manager" -> managerLock = Free
      [] OTHER -> FALSE

\* JoinHandle::abort cancels a task at the first await that suspends it:
\* an aborted task that is being polled runs on while its awaits are
\* ready, and is dropped, never polled again, once one is not. No
\* aborted task is left suspended.
NoneSuspendedAborted ==
    /\ \A t \in TaskIds : (Running(t) /\ task[t].cancelled) => ReadyNow(t)
    /\ \A s \in SyncTaskIds :
          (SyncRunning(s) /\ sync_task[s].cancelled) => SyncReadyNow(s)

(* ------------------------------------------------------------------ *)
(* The listener task spawned by start_websocket_listener              *)
(* ------------------------------------------------------------------ *)
\* the future has returned: its JoinHandle stays in MESSAGE_LISTENERS
\* until stop_websocket_listener removes it
Finished(t) ==
    IF \E id \in DOMAIN listeners : listeners[id] = t
    THEN [FreeTask EXCEPT !.pc = "done", !.id = task[t].id]
    ELSE FreeTask

\* a loop head that answers a missing connection by reconnecting
ListenerLockConnectionsRetrying(t) ==
    /\ NoneSuspendedAborted
    /\ task[t].pc = "loop"
    /\ connLock = Free
    /\ connLock' = t
    /\ IF task[t].id \in DOMAIN connections
       THEN task' = [task EXCEPT ![t].pc = "next", ![t].skipped = NoFrame]
       ELSE task' = [task EXCEPT ![t].pc = "sleep", ![t].skipped = NoFrame]
    /\ UNCHANGED <<connections, listeners, cacheVars, listenersLock,
                   dataLock, updateLock, caller, inbox, clockVars, syncVars,
                   handles, filterArg>>

\* loop head: lock the registry, look the connection up; a missing
\* connection breaks out of the loop
ListenerLockConnections(t) ==
    /\ NoneSuspendedAborted
    /\ task[t].pc = "loop"
    /\ connLock = Free
    /\ IF task[t].id \in DOMAIN connections
       THEN /\ connLock' = t
            /\ task' = [task EXCEPT ![t].pc = "next",
                                    ![t].skipped = NoFrame]
       ELSE /\ connLock' = Free
            /\ task' = [task EXCEPT ![t] = Finished(t)]
    /\ UNCHANGED <<connections, listeners, cacheVars, listenersLock,
                   dataLock, updateLock, caller, inbox, clockVars, syncVars,
                   handles, filterArg>>

\* a read that drops the registry guard before the reconnection delay
ListenerNextReleasing(t) ==
    /\ NoneSuspendedAborted
    /\ task[t].pc = "next"
    /\ LET id == task[t].id
           f == NextFrame(id)
           out == FrameOutcome(f)
       IN
       /\ NextReady(id)
       /\ inbox' = [inbox EXCEPT ![id] = IF @ = <<>> THEN @ ELSE Tail(@)]
       /\ CASE out = "store" ->
                 /\ task' = [task EXCEPT ![t].pc = "lock_data",
                                         ![t].frame = f]
                 /\ UNCHANGED <<connections, connLock>>
            [] out = "reconnect" ->
                 /\ task' = [task EXCEPT ![t].pc = "sleep",
                                         ![t].delay = ReconnectDelay(f.kind)]
                 /\ connections' = [connections EXCEPT ![id].ended = TRUE]
                 /\ connLock' = Free
            [] OTHER ->
                 /\ task' = [task EXCEPT ![t].pc = "loop",
                                         ![t].skipped = f]
                 /\ connLock' = Free
                 /\ UNCHANGED connections
    /\ UNCHANGED <<listeners, cacheVars, listenersLock, dataLock,
                   updateLock, caller,
                   clockVars, syncVars, handles, filterArg>>

\* ws_stream.next().await returned, with the registry guard held
ListenerNext(t) ==
    /\ NoneSuspendedAborted
    /\ task[t].pc = "next"
    /\ LET id == task[t].id
           f == NextFrame(id)
           out == FrameOutcome(f)
       IN
       /\ NextReady(id)
       /\ inbox' = [inbox EXCEPT ![id] = IF @ = <<>> THEN @ ELSE Tail(@)]
       /\ CASE out = "store" ->
                 /\ task' = [task EXCEPT ![t].pc = "lock_data",
                                         ![t].frame = f]
                 /\ UNCHANGED <<connections, connLock>>
            [] out = "reconnect" ->
                 /\ task' = [task EXCEPT ![t].pc = "sleep",
                                         ![t].delay = ReconnectDelay(f.kind)]
                 /\ connections' = [connections EXCEPT ![id].ended = TRUE]
                 /\ UNCHANGED connLock
            [] OTHER ->
                 /\ task' = [task EXCEPT ![t].pc = "loop",
                                         ![t].skipped = f]
                 /\ connLock' = Free
                 /\ UNCHANGED connections
    /\ UNCHANGED <<listeners, cacheVars, listenersLock, dataLock,
                   updateLock, caller,
                   clockVars, syncVars, handles, filterArg>>

\* LATEST_DATA_BY_COURT.lock().await returned: insert the data
ListenerLockData(t) ==
    /\ NoneSuspendedAborted
    /\ task[t].pc = "lock_data"
    /\ dataLock = Free
    /\ dataLock' = t
    /\ latest_data_by_court' =
           Insert(latest_data_by_court, TextOutcome(task[t].frame.doc).court,
                  TextOutcome(task[t].frame.doc).data)
    /\ task' = [task EXCEPT ![t].pc = "lock_update"]
    /\ UNCHANGED <<connections, listeners, last_update, connLock,
                   listenersLock, updateLock, caller, inbox,
                   clockVars, syncVars,
                   handles, filterArg>>

\* the periodic cleanup test after a write
CleanupDue(data) == Cardinality(DOMAIN data) % CleanupEvery = 0

\* LAST_DATA_UPDATE.lock().await returned: insert the instant, then run
\* the periodic cleanup (which locks LATEST_DATA_BY_COURT again) or drop
\* the three guards and loop
ListenerLockUpdate(t) ==
    /\ NoneSuspendedAborted
    /\ task[t].pc = "lock_update"
    /\ updateLock = Free
    /\ last_update' =
           Insert(last_update, TextOutcome(task[t].frame.doc).court, now)
    /\ IF CleanupDue(latest_data_by_court)
       THEN /\ updateLock' = t
            /\ task' = [task EXCEPT ![t].pc = "cleanup_lock_data"]
            /\ UNCHANGED <<connLock, dataLock>>
       ELSE /\ updateLock' = Free
            /\ dataLock' = Free
            /\ connLock' = Free
            /\ task' = [task EXCEPT ![t].pc = "loop",
                                    ![t].frame = NoFrame]
    /\ UNCHANGED <<connections, listeners, latest_data_by_court,
                   listenersLock, caller, inbox, clockVars, syncVars, handles,
                   filterArg>>

\* tokio::time::sleep(..).await returned, registry guard still held
ListenerSleep(t) ==
    /\ NoneSuspendedAborted
    /\ task[t].pc = "sleep"
    /\ task' = [task EXCEPT ![t].pc = "reconnect", ![t].delay = 0]
    /\ UNCHANGED <<connections, listeners, cacheVars, lockVars, caller,
                   inbox, clockVars, syncVars, handles, filterArg>>

\* the endpoint attempt_reconnection dials, whatever the id
ReconnectUrl == NormalizeUrl(WSS \o <<"i">>)

\* a transport opened by a successful handshake
NewHandle(url) == [n |-> handles + 1, url |-> url, ended |-> FALSE]

\* a listener that answers a failed reconnection with another delay and
\* another attempt
ListenerReconnectRetrying(t, ok) ==
    /\ NoneSuspendedAborted
    /\ task[t].pc = "reconnect"
    /\ IF ok
       THEN /\ handles < MaxHandles
            /\ handles' = handles + 1
            /\ task' = [task EXCEPT ![t].pc = "store_connection",
                                    ![t].handle = NewHandle(ReconnectUrl)]
       ELSE /\ task' = [task EXCEPT ![t].pc = "sleep"]
            /\ UNCHANGED handles
    /\ UNCHANGED <<connections, listeners, cacheVars, lockVars, caller,
                   inbox, clockVars, syncVars, filterArg>>

\* attempt_reconnection: connect_async(..).await returned; Err makes the
\* listener give up (break), Ok goes on to lock the registry
ListenerReconnect(t, ok) ==
    /\ NoneSuspendedAborted
    /\ task[t].pc = "reconnect"
    /\ IF ok
       THEN /\ handles < MaxHandles
            /\ handles' = handles + 1
            /\ task' = [task EXCEPT ![t].pc = "store_connection",
                                    ![t].handle = NewHandle(ReconnectUrl)]
            /\ UNCHANGED connLock
       ELSE /\ connLock' = Unlock(connLock, t)
            /\ task' = [task EXCEPT ![t] = Finished(t)]
            /\ UNCHANGED handles
    /\ UNCHANGED <<connections, listeners, cacheVars, listenersLock,
                   dataLock, updateLock, caller, inbox, clockVars, syncVars,
                   filterArg>>

\* JoinHandle::abort took effect: the future is dropped at an await
\* (one that suspended it, or one where its poll budget ran out), and
\* its guards with it
ListenerDropped(t) ==
    /\ Running(t)
    /\ task[t].cancelled
    /\ task' = [task EXCEPT ![t] = FreeTask]
    /\ DropGuards(t)
    /\ UNCHANGED <<connections, listeners, cacheVars, caller, inbox,
                   clockVars, syncVars, handles, filterArg>>

(* ------------------------------------------------------------------ *)
(* Commands: how an invocation returns                                *)
(* ------------------------------------------------------------------ *)
Status(st) == [NoRet EXCEPT !.status = st]

\* the command future completes with ret; the model keeps the finished
\* call's name and arguments beside its result
Return(u, ret) ==
    [caller EXCEPT ![u].pc = "idle", ![u].handle = NoHandle, ![u].ret = ret]

Idle(u) == caller[u].pc = "idle"

\* a command is invoked and reaches its first await
Invoke(u, op, pc, id) ==
    [caller EXCEPT ![u] = [IdleCaller EXCEPT !.op = op, !.pc = pc, !.id = id]]

(* ------------------------------------------------------------------ *)
(* connect_websocket                                                  *)
(* ------------------------------------------------------------------ *)
\* normalise and parse the URL; a parse error returns at once,
\* otherwise connect_async is awaited
CallConnect(u, ws_url, id, court_filter) ==
    /\ NoneSuspendedAborted
    /\ Idle(u)
    /\ IF UrlParses(NormalizeUrl(ws_url))
       THEN caller' = [caller EXCEPT ![u] =
                [IdleCaller EXCEPT !.op = "connect",
                                   !.pc = "connect_handshake",
                                   !.id = id,
                                   !.filter = court_filter,
                                   !.ws_url = ws_url,
                                   !.handle.url = NormalizeUrl(ws_url)]]
       ELSE caller' = [caller EXCEPT ![u] =
                [IdleCaller EXCEPT !.op = "connect",
                                   !.id = id,
                                   !.filter = court_filter,
                                   !.ws_url = ws_url,
                                   !.handle.url = NormalizeUrl(ws_url),
                                   !.ret = Status("invalid_url")]]
    /\ UNCHANGED <<connections, listeners, cacheVars, lockVars, task,
                   inbox, clockVars, syncVars, handles, filterArg>>

\* connect_async(..).await returned
ConnectHandshake(u, ok) ==
    /\ NoneSuspendedAborted
    /\ caller[u].pc = "connect_handshake"
    /\ IF ok
       THEN /\ handles < MaxHandles
            /\ handles' = handles + 1
            /\ caller' = [caller EXCEPT
                   ![u].pc = "store_connection",
                   ![u].handle = NewHandle(caller[u].handle.url)]
       ELSE /\ caller' = Return(u, Status("connect_failed"))
            /\ UNCHANGED handles
    /\ UNCHANGED <<connections, listeners, cacheVars, lockVars, task,
                   inbox, clockVars, syncVars, filterArg>>

\* "Store the connection": WEBSOCKET_CONNECTIONS.lock().await returned,
\* in connect_websocket (p a caller) or attempt_reconnection (p a task);
\* the insert drops the transport it replaces
StoreConnection(p) ==
    /\ NoneSuspendedAborted
    /\ connLock = Free
    /\ IF p \in TaskIds
       THEN /\ task[p].pc = "store_connection"
            /\ connections' =
                   Insert(connections, task[p].id, task[p].handle)
            /\ inbox' = [inbox EXCEPT ![task[p].id] = <<>>]
            /\ task' = [task EXCEPT ![p].pc = "loop",
                                    ![p].handle = NoHandle]
            /\ UNCHANGED <<caller, filterArg>>
       ELSE /\ caller[p].pc = "store_connection"
            /\ connections' =
                   Insert(connections, caller[p].id, caller[p].handle)
            /\ inbox' = [inbox EXCEPT ![caller[p].id] = <<>>]
            /\ filterArg' =
                   [filterArg EXCEPT ![caller[p].id] = caller[p].filter]
            /\ caller' = Return(p, Status("ok"))
            /\ UNCHANGED task
    /\ UNCHANGED <<listeners, cacheVars, lockVars,
                   clockVars, syncVars, handles>>

(* ------------------------------------------------------------------ *)
(* disconnect_websocket                                               *)
(* ------------------------------------------------------------------ *)
CallDisconnect(u, id) ==
    /\ NoneSuspendedAborted
    /\ Idle(u)
    /\ caller' = Invoke(u, "disconnect", "disconnect_lock", id)
    /\ UNCHANGED <<connections, listeners, cacheVars, lockVars, task,
                   inbox, clockVars, syncVars, handles, filterArg>>

\* the tasks after id's connection was removed: nothing is done to them,
\* the running ones of id are only marked in the history
Orphan(id) ==
    [t \in TaskIds |->
        IF Running(t) /\ task[t].id = id
        THEN [task[t] EXCEPT !.orphaned = TRUE]
        ELSE task[t]]

\* a disconnect that reports success for an unknown id
DisconnectLockLenient(u) ==
    /\ NoneSuspendedAborted
    /\ caller[u].pc = "disconnect_lock"
    /\ connLock = Free
    /\ IF caller[u].id \in DOMAIN connections
       THEN /\ connections' = RemoveAll(connections, {caller[u].id})
            /\ inbox' = [inbox EXCEPT ![caller[u].id] = <<>>]
            /\ connLock' = u
            /\ caller' = [caller EXCEPT ![u].pc = "disconnect_close"]
            /\ task' = Orphan(caller[u].id)
       ELSE /\ caller' = Return(u, Status("ok"))
            /\ UNCHANGED <<connections, inbox, connLock, task>>
    /\ UNCHANGED <<listeners, cacheVars, listenersLock, dataLock,
                   updateLock, clockVars, syncVars, handles, filterArg>>

\* a disconnect that also forgets the cached court data
DisconnectLockClearing(u) ==
    /\ NoneSuspendedAborted
    /\ caller[u].pc = "disconnect_lock"
    /\ connLock = Free
    /\ IF caller[u].id \in DOMAIN connections
       THEN /\ connections' = RemoveAll(connections, {caller[u].id})
            /\ inbox' = [inbox EXCEPT ![caller[u].id] = <<>>]
            /\ connLock' = u
            /\ caller' = [caller EXCEPT ![u].pc = "disconnect_close"]
            /\ task' = Orphan(caller[u].id)
            /\ latest_data_by_court' = EmptyMap
            /\ last_update' = EmptyMap
       ELSE /\ caller' = Return(u, Status("not_found"))
            /\ UNCHANGED <<connections, inbox, connLock, task, cacheVars>>
    /\ UNCHANGED <<listeners, listenersLock, dataLock, updateLock,
                   clockVars, syncVars, handles, filterArg>>

\* the registry lock is acquired: remove the entry, then await close()
\* with the guard held; an unknown id is an error
DisconnectLock(u) ==
    /\ NoneSuspendedAborted
    /\ caller[u].pc = "disconnect_lock"
    /\ connLock = Free
    /\ IF caller[u].id \in DOMAIN connections
       THEN /\ connections' = RemoveAll(connections, {caller[u].id})
            /\ inbox' = [inbox EXCEPT ![caller[u].id] = <<>>]
            /\ connLock' = u
            /\ caller' = [caller EXCEPT ![u].pc = "disconnect_close"]
            /\ task' = Orphan(caller[u].id)
       ELSE /\ caller' = Return(u, Status("not_found"))
            /\ UNCHANGED <<connections, inbox, connLock, task>>
    /\ UNCHANGED <<listeners, cacheVars, listenersLock, dataLock,
                   updateLock, clockVars, syncVars, handles, filterArg>>

\* a disconnect that reports the failure of close()
DisconnectCloseChecked(u, ok) ==
    /\ NoneSuspendedAborted
    /\ caller[u].pc = "disconnect_close"
    /\ ok \in BOOLEAN
    /\ connLock' = Unlock(connLock, u)
    /\ caller' = Return(u, Status(IF ok THEN "ok" ELSE "send_failed"))
    /\ UNCHANGED <<connections, listeners, cacheVars, listenersLock,
                   dataLock, updateLock, task, inbox,
                   clockVars, syncVars, handles,
                   filterArg>>

\* ws_stream.close(None).await returned; its result is discarded
DisconnectClose(u, ok) ==
    /\ NoneSuspendedAborted
    /\ caller[u].pc = "disconnect_close"
    /\ ok \in BOOLEAN
    /\ connLock' = Unlock(connLock, u)
    /\ caller' = Return(u, Status("ok"))
    /\ UNCHANGED <<connections, listeners, cacheVars, listenersLock,
                   dataLock, updateLock, task, inbox,
                   clockVars, syncVars, handles,
                   filterArg>>

(* ------------------------------------------------------------------ *)
(* start_websocket_listener / stop_websocket_listener                 *)
(* ------------------------------------------------------------------ *)
CallStart(u, id) ==
    /\ NoneSuspendedAborted
    /\ Idle(u)
    /\ caller' = Invoke(u, "start_listener", "start_lock_listeners", id)
    /\ UNCHANGED <<connections, listeners, cacheVars, lockVars, task,
                   inbox, clockVars, syncVars, handles, filterArg>>

\* a start that does not look for an entry of the id in the table
StartLockListenersUnchecked(u) ==
    /\ NoneSuspendedAborted
    /\ caller[u].pc = "start_lock_listeners"
    /\ listenersLock = Free
    /\ caller' = [caller EXCEPT ![u].pc = "start_lock_connections"]
    /\ listenersLock' = u
    /\ UNCHANGED <<connections, listeners, cacheVars, connLock, dataLock,
                   updateLock, task, inbox,
                   clockVars, syncVars, handles, filterArg>>

\* the listener table is locked: an entry for the id returns Ok at
\* once, otherwise the registry lock is awaited with the guard held
StartLockListeners(u) ==
    /\ NoneSuspendedAborted
    /\ caller[u].pc = "start_lock_listeners"
    /\ listenersLock = Free
    /\ IF caller[u].id \in DOMAIN listeners
       THEN /\ caller' = Return(u, Status("already_running"))
            /\ UNCHANGED listenersLock
       ELSE /\ caller' = [caller EXCEPT ![u].pc = "start_lock_connections"]
            /\ listenersLock' = u
    /\ UNCHANGED <<connections, listeners, cacheVars, connLock, dataLock,
                   updateLock, task, inbox,
                   clockVars, syncVars, handles, filterArg>>

FreeSlots == {t \in TaskIds : task[t].pc = "free"}

\* the registry is locked: an unknown id is an error; otherwise the
\* registry guard is dropped, the task spawned and its JoinHandle
\* inserted
StartLockConnections(u) ==
    /\ NoneSuspendedAborted
    /\ caller[u].pc = "start_lock_connections"
    /\ connLock = Free
    /\ IF caller[u].id \notin DOMAIN connections
       THEN /\ caller' = Return(u, Status("not_found"))
            /\ UNCHANGED <<listeners, task>>
       ELSE /\ FreeSlots # {}
            /\ LET t == CHOOSE x \in FreeSlots : TRUE
               IN /\ task' = [task EXCEPT ![t] =
                         [FreeTask EXCEPT !.pc = "loop",
                                          !.id = caller[u].id]]
                  /\ listeners' = Insert(listeners, caller[u].id, t)
            /\ caller' = Return(u, Status("ok"))
    /\ listenersLock' = Unlock(listenersLock, u)
    /\ UNCHANGED <<connections, cacheVars, connLock, dataLock, updateLock,
                   inbox, clockVars, syncVars, handles, filterArg>>

CallStop(u, id) ==
    /\ NoneSuspendedAborted
    /\ Idle(u)
    /\ caller' = Invoke(u, "stop_listener", "stop_lock", id)
    /\ UNCHANGED <<connections, listeners, cacheVars, lockVars, task,
                   inbox, clockVars, syncVars, handles, filterArg>>

\* JoinHandle::abort: a live task is marked for cancellation, a task
\* that already returned is just forgotten
Abort(t) ==
    IF Running(t) THEN [task EXCEPT ![t].cancelled = TRUE]
    ELSE [task EXCEPT ![t] = FreeTask]

\* the listener table is locked: remove the handle and abort it
StopLock(u) ==
    /\ NoneSuspendedAborted
    /\ caller[u].pc = "stop_lock"
    /\ listenersLock = Free
    /\ IF caller[u].id \in DOMAIN listeners
       THEN /\ listeners' = RemoveAll(listeners, {caller[u].id})
            /\ task' = Abort(listeners[caller[u].id])
            /\ caller' = Return(u, Status("ok"))
       ELSE /\ caller' = Return(u, Status("not_found"))
            /\ UNCHANGED <<listeners, task>>
    /\ UNCHANGED <<connections, cacheVars, lockVars, inbox,
                   clockVars, syncVars,
                   handles, filterArg>>

(* ------------------------------------------------------------------ *)
(* send_websocket_message / check_websocket_status                    *)
(* ------------------------------------------------------------------ *)
CallSend(u, id) ==
    /\ NoneSuspendedAborted
    /\ Idle(u)
    /\ caller' = Invoke(u, "send", "send_lock", id)
    /\ UNCHANGED <<connections, listeners, cacheVars, lockVars, task,
                   inbox, clockVars, syncVars, handles, filterArg>>

\* the registry is locked: send on the stored transport, guard held
SendLock(u) ==
    /\ NoneSuspendedAborted
    /\ caller[u].pc = "send_lock"
    /\ connLock = Free
    /\ IF caller[u].id \in DOMAIN connections
       THEN /\ connLock' = u
            /\ caller' = [caller EXCEPT ![u].pc = "send_io"]
       ELSE /\ caller' = Return(u, Status("not_found"))
            /\ UNCHANGED connLock
    /\ UNCHANGED <<connections, listeners, cacheVars, listenersLock,
                   dataLock, updateLock, task, inbox,
                   clockVars, syncVars, handles,
                   filterArg>>

\* ws_stream.send(..).await returned
SendIo(u, ok) ==
    /\ NoneSuspendedAborted
    /\ caller[u].pc = "send_io"
    /\ connLock' = Unlock(connLock, u)
    /\ caller' = Return(u, Status(IF ok THEN "ok" ELSE "send_failed"))
    /\ UNCHANGED <<connections, listeners, cacheVars, listenersLock,
                   dataLock, updateLock, task, inbox,
                   clockVars, syncVars, handles,
                   filterArg>>

CallStatus(u, id) ==
    /\ NoneSuspendedAborted
    /\ Idle(u)
    /\ caller' = Invoke(u, "is_connected", "status_lock", id)
    /\ UNCHANGED <<connections, listeners, cacheVars, lockVars, task,
                   inbox, clockVars, syncVars, handles, filterArg>>

\* the registry is locked: presence check only
StatusLock(u) ==
    /\ NoneSuspendedAborted
    /\ caller[u].pc = "status_lock"
    /\ connLock = Free
    /\ caller' = Return(u, [Status("ok") EXCEPT
                     !.found = caller[u].id \in DOMAIN connections])
    /\ UNCHANGED <<connections, listeners, cacheVars, lockVars, task,
                   inbox, clockVars, syncVars, handles, filterArg>>

(* ------------------------------------------------------------------ *)
(* test_websocket_connection: a probe that takes no lock              *)
(* ------------------------------------------------------------------ *)
\* normalise and parse the URL; a parse error returns at once,
\* otherwise the handshake is awaited under a timeout
CallTest(u, ws_url) ==
    /\ NoneSuspendedAborted
    /\ Idle(u)
    /\ IF UrlParses(NormalizeUrl(ws_url))
       THEN caller' = [caller EXCEPT ![u] =
                [IdleCaller EXCEPT !.op = "test_connection",
                                   !.pc = "test_handshake",
                                   !.ws_url = ws_url,
                                   !.handle.url = NormalizeUrl(ws_url)]]
       ELSE caller' = [caller EXCEPT ![u] =
                [IdleCaller EXCEPT !.op = "test_connection",
                                   !.ws_url = ws_url,
                                   !.handle.url = NormalizeUrl(ws_url),
                                   !.ret = Status("invalid_url")]]
    /\ UNCHANGED <<connections, listeners, cacheVars, lockVars, task,
                   inbox, clockVars, syncVars, handles, filterArg>>

\* what timeout(10 s, connect_async(..)).await yields
TestOutcomes == {"ok", "failed", "timeout"}

\* a probe that leaves its transport in the registry
TestHandshakeRegistering(u, outcome) ==
    /\ NoneSuspendedAborted
    /\ caller[u].pc = "test_handshake"
    /\ outcome \in TestOutcomes
    /\ IF outcome = "ok"
       THEN /\ caller' = [caller EXCEPT ![u].pc = "test_close"]
            /\ connections' =
                   Insert(connections, "C", NewHandle(caller[u].handle.url))
       ELSE /\ caller' = Return(u, Status(IF outcome = "failed"
                                           THEN "connect_failed"
                                           ELSE "timeout"))
            /\ UNCHANGED connections
    /\ UNCHANGED <<listeners, cacheVars, lockVars, task, inbox,
                   clockVars, syncVars,
                   handles, filterArg>>

\* the timeout or the handshake completed: Ok(Ok(stream)) goes on to
\* close the stream, Ok(Err) and Err return an error
TestHandshake(u, outcome) ==
    /\ NoneSuspendedAborted
    /\ caller[u].pc = "test_handshake"
    /\ outcome \in TestOutcomes
    /\ IF outcome = "ok"
       THEN caller' = [caller EXCEPT ![u].pc = "test_close"]
       ELSE caller' = Return(u, Status(IF outcome = "failed"
                                      THEN "connect_failed"
                                      ELSE "timeout"))
    /\ UNCHANGED <<connections, listeners, cacheVars, lockVars, task,
                   inbox, clockVars, syncVars, handles, filterArg>>

\* ws_stream.close(None).await returned; its result is discarded, the
\* local stream is dropped and the probe answers Ok(true)
TestClose(u, ok) ==
    /\ NoneSuspendedAborted
    /\ caller[u].pc = "test_close"
    /\ ok \in BOOLEAN
    /\ caller' = Return(u, [Status("ok") EXCEPT !.found = TRUE])
    /\ UNCHANGED <<connections, listeners, cacheVars, lockVars, task,
                   inbox, clockVars, syncVars, handles, filterArg>>

(* ------------------------------------------------------------------ *)
(* inspect_live_data                                                  *)
(* ------------------------------------------------------------------ *)
CallInspect(u) ==
    /\ NoneSuspendedAborted
    /\ Idle(u)
    /\ caller' = Invoke(u, "inspect", "inspect_lock_connections", "")
    /\ UNCHANGED <<connections, listeners, cacheVars, lockVars, task,
                   inbox, clockVars, syncVars, handles, filterArg>>

\* the registry is locked and counted; the guard lives to the end of the
\* function, so the payload map is awaited with it held
InspectLockConnections(u) ==
    /\ NoneSuspendedAborted
    /\ caller[u].pc = "inspect_lock_connections"
    /\ connLock = Free
    /\ connLock' = u
    /\ caller' = [caller EXCEPT
           ![u].pc = "inspect_lock_data",
           ![u].ret.connection_count = Cardinality(DOMAIN connections)]
    /\ UNCHANGED <<connections, listeners, cacheVars, listenersLock,
                   dataLock, updateLock, task, inbox,
                   clockVars, syncVars, handles,
                   filterArg>>

\* the payload map is locked and counted; both guards are dropped
InspectLockData(u) ==
    /\ NoneSuspendedAborted
    /\ caller[u].pc = "inspect_lock_data"
    /\ dataLock = Free
    /\ connLock' = Unlock(connLock, u)
    /\ caller' = Return(u, [caller[u].ret EXCEPT
           !.status = "ok",
           !.count = Cardinality(DOMAIN latest_data_by_court)])
    /\ UNCHANGED <<connections, listeners, cacheVars, listenersLock,
                   dataLock, updateLock, task, inbox,
                   clockVars, syncVars, handles,
                   filterArg>>

(* ------------------------------------------------------------------ *)
(* Cache queries                                                      *)
(* ------------------------------------------------------------------ *)
CallGetCourt(u, court_name) ==
    /\ NoneSuspendedAborted
    /\ Idle(u)
    /\ caller' = [caller EXCEPT ![u] =
           [IdleCaller EXCEPT !.op = "get_court", !.pc = "get_lock",
                              !.court = court_name]]
    /\ UNCHANGED <<connections, listeners, cacheVars, lockVars, task,
                   inbox, clockVars, syncVars, handles, filterArg>>

\* a lookup that keeps the court of the payload and loses the rest
LookupCourtOnly(data, court_name) ==
    IF court_name \in DOMAIN data
    THEN [NoRet EXCEPT !.status = "ok", !.found = TRUE,
                       !.value = DataObj(data[court_name].court, 1)]
    ELSE Status("ok")

\* latest_data_by_court.get(&court_name).cloned()
Lookup(data, court_name) ==
    IF court_name \in DOMAIN data
    THEN [NoRet EXCEPT !.status = "ok", !.found = TRUE,
                       !.value = data[court_name]]
    ELSE Status("ok")

\* get_latest_ioncourt_data_by_court: the payload map is locked
GetCourtLock(u) ==
    /\ NoneSuspendedAborted
    /\ caller[u].pc = "get_lock"
    /\ dataLock = Free
    /\ caller' = Return(u, Lookup(latest_data_by_court, caller[u].court))
    /\ UNCHANGED <<connections, listeners, cacheVars, lockVars, task,
                   inbox, clockVars, syncVars, handles, filterArg>>

\* now.duration_since(last_update_time), in seconds
Age(last, t) == IF t >= last THEN t - last ELSE 0

\* a freshness test that ends at the window instead of after it
IsActiveBeforeTimeout(last, t) == Age(last, t) < ActiveTimeoutSecs

\* the freshness test of get_active_court_data
IsActive(last, t) == Age(last, t) <= ActiveTimeoutSecs

RECURSIVE ActiveRequested(_, _, _, _, _)
\* the loop over a non-empty active_courts, result accumulated in order
ActiveRequested(active_courts, data, updates, t, result) ==
    IF active_courts = <<>> THEN result
    ELSE LET court_name == Head(active_courts)
             keep == /\ court_name \in DOMAIN data
                     /\ court_name \in DOMAIN updates
                     /\ IsActive(updates[court_name], t)
         IN ActiveRequested(Tail(active_courts), data, updates, t,
                IF keep THEN Insert(result, court_name, data[court_name])
                ELSE result)

\* a fallback that returns every timestamped court, whatever its age
ActiveFallbackAnyAge(data, updates, t) ==
    [court_name \in {c \in DOMAIN data : c \in DOMAIN updates}
        |-> data[court_name]]

\* the time-based fallback over every cached court
ActiveFallback(data, updates, t) ==
    [court_name \in {c \in DOMAIN data :
                        c \in DOMAIN updates /\ IsActive(updates[c], t)}
        |-> data[court_name]]

\* the JSON object get_active_court_data returns
ActiveCourtData(active_courts, data, updates, t) ==
    IF active_courts # <<>>
    THEN ActiveRequested(active_courts, data, updates, t, EmptyMap)
    ELSE ActiveFallback(data, updates, t)

CallGetActive(u, active_courts) ==
    /\ NoneSuspendedAborted
    /\ Idle(u)
    /\ caller' = [caller EXCEPT ![u] =
           [IdleCaller EXCEPT !.op = "get_active_courts",
                              !.pc = "active_lock_data",
                              !.requested = active_courts]]
    /\ UNCHANGED <<connections, listeners, cacheVars, lockVars, task,
                   inbox, clockVars, syncVars, handles, filterArg>>

\* get_active_court_data: the payload map is locked
ActiveLockData(u) ==
    /\ NoneSuspendedAborted
    /\ caller[u].pc = "active_lock_data"
    /\ dataLock = Free
    /\ dataLock' = u
    /\ caller' = [caller EXCEPT ![u].pc = "active_lock_update"]
    /\ UNCHANGED <<connections, listeners, cacheVars, connLock,
                   listenersLock, updateLock, task, inbox,
                   clockVars, syncVars,
                   handles, filterArg>>

\* get_active_court_data: the timestamp map is locked too; read the
\* clock, build the result, drop both guards
ActiveLockUpdate(u) ==
    /\ NoneSuspendedAborted
    /\ caller[u].pc = "active_lock_update"
    /\ updateLock = Free
    /\ dataLock' = Unlock(dataLock, u)
    /\ caller' = Return(u, [Status("ok") EXCEPT !.courts =
           ActiveCourtData(caller[u].requested, latest_data_by_court,
                           last_update, now)])
    /\ UNCHANGED <<connections, listeners, cacheVars, connLock,
                   listenersLock, updateLock, task, inbox,
                   clockVars, syncVars,
                   handles, filterArg>>

(* ------------------------------------------------------------------ *)
(* cleanup_old_data and cleanup_live_data                             *)
(* ------------------------------------------------------------------ *)
\* a sweep that already removes what has just reached the window
CourtsToRemoveAtTimeout(updates, t) ==
    {court_name \in DOMAIN updates :
        Age(updates[court_name], t) >= CleanupTimeoutSecs}

\* courts_to_remove of cleanup_old_data
CourtsToRemove(updates, t) ==
    {court_name \in DOMAIN updates :
        Age(updates[court_name], t) > CleanupTimeoutSecs}

CallCleanup(u) ==
    /\ NoneSuspendedAborted
    /\ Idle(u)
    /\ caller' = Invoke(u, "cleanup", "cleanup_lock_data", "")
    /\ UNCHANGED <<connections, listeners, cacheVars, lockVars, task,
                   inbox, clockVars, syncVars, handles, filterArg>>

PcOf(p) == IF p \in TaskIds THEN task[p].pc ELSE caller[p].pc

\* p moves from one await to the next
Goto(p, pc) ==
    /\ IF p \in TaskIds
       THEN task' = [task EXCEPT ![p].pc = pc] /\ UNCHANGED caller
       ELSE caller' = [caller EXCEPT ![p].pc = pc] /\ UNCHANGED task

\* cleanup_old_data, called by cleanup_live_data (p a caller) or by the
\* listener after a write (p a task): the payload map is locked
CleanupLockData(p) ==
    /\ NoneSuspendedAborted
    /\ PcOf(p) = "cleanup_lock_data"
    /\ dataLock = Free
    /\ dataLock' = p
    /\ Goto(p, "cleanup_lock_update")
    /\ UNCHANGED <<connections, listeners, cacheVars, connLock,
                   listenersLock, updateLock, inbox,
                   clockVars, syncVars, handles,
                   filterArg>>

\* a sweep whose timestamp guard outlives it in cleanup_live_data
CleanupLockUpdateKeepingGuard(p) ==
    /\ NoneSuspendedAborted
    /\ PcOf(p) = "cleanup_lock_update"
    /\ updateLock = Free
    /\ LET courts_to_remove == CourtsToRemove(last_update, now)
       IN /\ latest_data_by_court' =
                 RemoveAll(latest_data_by_court, courts_to_remove)
          /\ last_update' = RemoveAll(last_update, courts_to_remove)
    /\ dataLock' = Free
    /\ IF p \in TaskIds
       THEN /\ connLock' = Unlock(connLock, p)
            /\ updateLock' = Free
            /\ task' = [task EXCEPT ![p].pc = "loop", ![p].frame = NoFrame]
            /\ UNCHANGED caller
       ELSE /\ UNCHANGED <<connLock, task>>
            /\ updateLock' = p
            /\ caller' = [caller EXCEPT
                   ![p].pc = "cleanup_count_lock",
                   ![p].ret.removed =
                       Cardinality(CourtsToRemove(last_update, now))]
    /\ UNCHANGED <<connections, listeners, listenersLock, inbox,
                   clockVars, syncVars,
                   handles, filterArg>>

\* cleanup_old_data: the timestamp map is locked too; remove the stale
\* courts from both maps and drop both guards. The listener then
\* leaves its own block (dropping its guards), cleanup_live_data goes on
\* to count what remains
CleanupLockUpdate(p) ==
    /\ NoneSuspendedAborted
    /\ PcOf(p) = "cleanup_lock_update"
    /\ updateLock = Free
    /\ LET courts_to_remove == CourtsToRemove(last_update, now)
       IN /\ latest_data_by_court' =
                 RemoveAll(latest_data_by_court, courts_to_remove)
          /\ last_update' = RemoveAll(last_update, courts_to_remove)
    /\ dataLock' = Free
    /\ updateLock' = Free
    /\ IF p \in TaskIds
       THEN /\ connLock' = Unlock(connLock, p)
            /\ task' = [task EXCEPT ![p].pc = "loop", ![p].frame = NoFrame]
            /\ UNCHANGED caller
       ELSE /\ UNCHANGED <<connLock, task>>
            /\ caller' = [caller EXCEPT
                   ![p].pc = "cleanup_count_lock",
                   ![p].ret.removed =
                       Cardinality(CourtsToRemove(last_update, now))]
    /\ UNCHANGED <<connections, listeners, listenersLock, inbox,
                   clockVars, syncVars,
                   handles, filterArg>>

\* cleanup_live_data: the payload map is locked again to count it
CleanupCountLock(u) ==
    /\ NoneSuspendedAborted
    /\ caller[u].pc = "cleanup_count_lock"
    /\ dataLock = Free
    /\ caller' = Return(u, [caller[u].ret EXCEPT
           !.status = "ok",
           !.count = Cardinality(DOMAIN latest_data_by_court)])
    /\ UNCHANGED <<connections, listeners, cacheVars, lockVars, task,
                   inbox, clockVars, syncVars, handles, filterArg>>

(* ------------------------------------------------------------------ *)
(* Court-data sync: the commands of court_data_sync.rs                *)
(* ------------------------------------------------------------------ *)
\* what the sync service never touches
liveVars == <<connections, listeners, cacheVars, connLock, listenersLock,
              task, inbox, clockVars, handles, filterArg>>

SyncOps == {"start_sync", "stop_sync", "manual_sync", "get_status",
            "is_running"}

\* the first await of the method each command calls
FirstAwait(op) ==
    CASE op = "start_sync" -> "start_lock_state"
      [] op = "stop_sync" -> "stop_lock_state"
      [] op = "manual_sync" -> "fetch_lock_data"
      [] op = "get_status" -> "status_lock_state"
      [] OTHER -> "running_lock_state"

\* a sync command is invoked and awaits COURT_DATA_SYNC.lock()
CallSyncCommand(u, op, interval_ms) ==
    /\ NoneSuspendedAborted
    /\ Idle(u)
    /\ op \in SyncOps
    /\ caller' = [caller EXCEPT ![u] =
           [IdleCaller EXCEPT !.op = op, !.pc = "sync_lock",
                              !.interval_ms = interval_ms]]
    /\ UNCHANGED <<liveVars, dataLock, updateLock, syncVars>>

\* COURT_DATA_SYNC is locked; the guard lives until the command returns
SyncCommandLock(u) ==
    /\ NoneSuspendedAborted
    /\ caller[u].pc = "sync_lock"
    /\ syncLock = Free
    /\ syncLock' = u
    /\ caller' = [caller EXCEPT ![u].pc = FirstAwait(caller[u].op)]
    /\ UNCHANGED <<liveVars, dataLock, updateLock, stateLock, managerLock,
                   sync_state, data_manager, sync_task>>

FreeSyncSlots == {s \in SyncTaskIds : sync_task[s].pc = "free"}

\* start_sync with the state locked: AlreadyRunning, or set the flags,
\* spawn the background task and store its JoinHandle
StartSyncLockState(u) ==
    /\ NoneSuspendedAborted
    /\ caller[u].pc = "start_lock_state"
    /\ stateLock = Free
    /\ IF sync_state.is_running
       THEN /\ caller' = Return(u, Status("already_running"))
            /\ UNCHANGED <<sync_state, sync_task>>
       ELSE /\ FreeSyncSlots # {}
            /\ LET s == CHOOSE x \in FreeSyncSlots : TRUE
               IN /\ sync_task' = [sync_task EXCEPT ![s] =
                         [FreeSyncTask EXCEPT !.pc = "first_tick"]]
                  /\ sync_state' = [sync_state EXCEPT
                         !.is_running = TRUE,
                         !.interval_ms = caller[u].interval_ms,
                         !.sync_task = s]
            /\ caller' = Return(u, Status("ok"))
    /\ syncLock' = Unlock(syncLock, u)
    /\ UNCHANGED <<liveVars, dataLock, updateLock, stateLock, managerLock,
                   data_manager>>

\* JoinHandle::abort on the background task
AbortSync(s) ==
    IF s \in SyncTaskIds /\ SyncRunning(s)
    THEN [sync_task EXCEPT ![s].cancelled = TRUE]
    ELSE sync_task

\* stop_sync as it would be if it aborted the task through a reference
\* and left the JoinHandle stored
StopSyncLockStateKeepingHandle(u) ==
    /\ NoneSuspendedAborted
    /\ caller[u].pc = "stop_lock_state"
    /\ stateLock = Free
    /\ IF ~sync_state.is_running
       THEN /\ caller' = Return(u, Status("not_running"))
            /\ UNCHANGED <<sync_state, sync_task>>
       ELSE /\ sync_state' = [sync_state EXCEPT !.is_running = FALSE]
            /\ sync_task' = AbortSync(sync_state.sync_task)
            /\ caller' = Return(u, Status("ok"))
    /\ syncLock' = Unlock(syncLock, u)
    /\ UNCHANGED <<liveVars, dataLock, updateLock, stateLock, managerLock,
                   data_manager>>

\* stop_sync with the state locked: NotRunning, or clear the flag, take
\* the JoinHandle and abort it
StopSyncLockState(u) ==
    /\ NoneSuspendedAborted
    /\ caller[u].pc = "stop_lock_state"
    /\ stateLock = Free
    /\ IF ~sync_state.is_running
       THEN /\ caller' = Return(u, Status("not_running"))
            /\ UNCHANGED <<sync_state, sync_task>>
       ELSE /\ sync_state' = [sync_state EXCEPT !.is_running = FALSE,
                                                !.sync_task = NoSyncTask]
            /\ sync_task' = AbortSync(sync_state.sync_task)
            /\ caller' = Return(u, Status("ok"))
    /\ syncLock' = Unlock(syncLock, u)
    /\ UNCHANGED <<liveVars, dataLock, updateLock, stateLock, managerLock,
                   data_manager>>

\* is_running with the state locked
IsRunningLockState(u) ==
    /\ NoneSuspendedAborted
    /\ caller[u].pc = "running_lock_state"
    /\ stateLock = Free
    /\ caller' = Return(u, [Status("ok") EXCEPT
                               !.found = sync_state.is_running])
    /\ syncLock' = Unlock(syncLock, u)
    /\ UNCHANGED <<liveVars, dataLock, updateLock, stateLock, managerLock,
                   sync_state, data_manager, sync_task>>

\* get_status with the state locked: the data manager is awaited with
\* the state guard held
StatusLockState(u) ==
    /\ NoneSuspendedAborted
    /\ caller[u].pc = "status_lock_state"
    /\ stateLock = Free
    /\ stateLock' = u
    /\ caller' = [caller EXCEPT ![u].pc = "status_lock_manager"]
    /\ UNCHANGED <<liveVars, dataLock, updateLock, syncLock, managerLock,
                   sync_state, data_manager, sync_task>>

\* get_status with the data manager locked too: build the status, drop
\* the three guards
StatusLockManager(u) ==
    /\ NoneSuspendedAborted
    /\ caller[u].pc = "status_lock_manager"
    /\ managerLock = Free
    /\ caller' = Return(u, [Status("ok") EXCEPT !.sync_status =
           [is_running |-> sync_state.is_running,
            interval_ms |-> sync_state.interval_ms,
            last_sync |-> sync_state.last_sync,
            active_courts |-> sync_state.active_courts,
            stored_courts |-> DOMAIN data_manager.data,
            error_count |-> sync_state.error_count]])
    /\ stateLock' = Unlock(stateLock, u)
    /\ syncLock' = Unlock(syncLock, u)
    /\ UNCHANGED <<liveVars, dataLock, updateLock, managerLock, sync_state,
                   data_manager, sync_task>>

(* ------------------------------------------------------------------ *)
(* perform_sync, run by trigger_manual_sync (p a caller) or by the    *)
(* background task (p a sync task)                                    *)
(* ------------------------------------------------------------------ *)
Runner(p) == IF p \in SyncTaskIds THEN sync_task[p] ELSE caller[p]

\* p moves to its next await inside perform_sync
SyncGoto(p, pc, court_data, stage) ==
    IF p \in SyncTaskIds
    THEN /\ sync_task' = [sync_task EXCEPT ![p].pc = pc,
                                           ![p].court_data = court_data,
                                           ![p].stage = stage]
         /\ UNCHANGED <<caller, syncLock>>
    ELSE /\ caller' = [caller EXCEPT ![p].pc = pc,
                                     ![p].court_data = court_data,
                                     ![p].stage = stage]
         /\ UNCHANGED <<sync_task, syncLock>>

\* perform_sync returns: the command answers and drops COURT_DATA_SYNC;
\* the background task goes back to its timer, through the error
\* counter after an Err
EndSync(p, ok) ==
    IF p \in SyncTaskIds
    THEN /\ sync_task' = [sync_task EXCEPT ![p] =
                [FreeSyncTask EXCEPT
                    !.pc = IF ok THEN "tick" ELSE "error_lock_state",
                    !.cancelled = sync_task[p].cancelled]]
         /\ UNCHANGED <<caller, syncLock>>
    ELSE /\ caller' = Return(p, Status(IF ok THEN "ok" ELSE "sync_failed"))
         /\ syncLock' = Unlock(syncLock, p)
         /\ UNCHANGED sync_task

\* get_active_displayed_courts: "For now, return empty vec"
ActiveDisplayedCourts == <<>>

\* fetch_court_data calls get_active_court_data: the payload map is
\* locked
SyncFetchLockData(p) ==
    /\ NoneSuspendedAborted
    /\ Runner(p).pc = "fetch_lock_data"
    /\ dataLock = Free
    /\ dataLock' = p
    /\ SyncGoto(p, "fetch_lock_update", EmptyMap, "")
    /\ UNCHANGED <<liveVars, updateLock, stateLock, managerLock, sync_state,
                   data_manager>>

\* the timestamp map is locked too: the fresh courts are collected and
\* both guards dropped; an empty result ends the sync
SyncFetchLockUpdate(p) ==
    /\ NoneSuspendedAborted
    /\ Runner(p).pc = "fetch_lock_update"
    /\ updateLock = Free
    /\ dataLock' = Unlock(dataLock, p)
    /\ LET court_data == ActiveCourtData(ActiveDisplayedCourts,
                             latest_data_by_court, last_update, now)
       IN IF court_data = EmptyMap
          THEN EndSync(p, TRUE)
          ELSE SyncGoto(p, "lock_manager", court_data, "")
    /\ UNCHANGED <<liveVars, updateLock, stateLock, managerLock, sync_state,
                   data_manager>>

\* CourtDataEntry
Entry(data, t) == [data |-> data, last_updated |-> t, last_accessed |-> t]

\* store_court_data up to persist_to_file
StoreCourtData(manager, court_data, t) ==
    [data |-> [c \in DOMAIN manager.data \cup DOMAIN court_data |->
                  IF c \in DOMAIN court_data THEN Entry(court_data[c], t)
                  ELSE manager.data[c]],
     has_changes |-> TRUE]

\* remove_court_data for every court in courts
RemoveCourts(manager, courts) ==
    [data |-> RemoveAll(manager.data, courts),
     has_changes |-> manager.has_changes
                        \/ courts \cap DOMAIN manager.data # {}]

\* cleanup_undisplayed_courts: courts_to_remove
Undisplayed(manager, active_courts) ==
    {c \in DOMAIN manager.data :
        \A i \in 1..Len(active_courts) : active_courts[i] # c}

\* cleanup_expired_data: expired_courts
Expired(manager, t) ==
    {c \in DOMAIN manager.data :
        t - manager.data[c].last_accessed > MaxAgeSecs}

\* the data manager is locked: store_court_data inserts the fetched
\* courts and awaits the file write
SyncLockManager(p) ==
    /\ NoneSuspendedAborted
    /\ Runner(p).pc = "lock_manager"
    /\ managerLock = Free
    /\ managerLock' = p
    /\ data_manager' = StoreCourtData(data_manager, Runner(p).court_data, now)
    /\ SyncGoto(p, "persist", Runner(p).court_data, "store")
    /\ UNCHANGED <<liveVars, dataLock, updateLock, stateLock, sync_state>>

\* cleanup_expired_data with manager as the data manager is now, then
\* the end of perform_sync: the expired courts are removed and the file
\* write awaited, or the sync returns Ok and drops its guards
ExpireAndReturn(p, manager) ==
    IF Expired(manager, now) # {}
    THEN /\ data_manager' =
               [RemoveCourts(manager, Expired(manager, now))
                   EXCEPT !.has_changes = TRUE]
         /\ SyncGoto(p, "persist", Runner(p).court_data, "expired")
         /\ UNCHANGED managerLock
         /\ stateLock' = IF stateLock = Free THEN p ELSE stateLock
    ELSE /\ data_manager' = manager
         /\ EndSync(p, TRUE)
         /\ managerLock' = Unlock(managerLock, p)
         /\ stateLock' = Free

\* the state is locked with the data manager guard held: last_sync and
\* active_courts are set, then cleanup_undisplayed_courts removes every
\* stored court that is not in active_courts and awaits the file write
SyncLockState(p) ==
    /\ NoneSuspendedAborted
    /\ Runner(p).pc = "sync_lock_state"
    /\ stateLock = Free
    /\ sync_state' = [sync_state EXCEPT
           !.last_sync = Instant(now),
           !.active_courts = ActiveDisplayedCourts]
    /\ LET courts_to_remove ==
               Undisplayed(data_manager, ActiveDisplayedCourts)
       IN IF courts_to_remove # {}
          THEN /\ data_manager' =
                     RemoveCourts(data_manager, courts_to_remove)
               /\ SyncGoto(p, "persist", Runner(p).court_data,
                           "undisplayed")
               /\ stateLock' = p
               /\ UNCHANGED managerLock
          ELSE ExpireAndReturn(p, data_manager)
    /\ UNCHANGED <<liveVars, dataLock, updateLock>>

\* tokio::fs::write in persist_to_file returned, inside store_court_data,
\* cleanup_undisplayed_courts or cleanup_expired_data; Err ends
\* perform_sync through the ? operator
SyncPersist(p, ok) ==
    /\ NoneSuspendedAborted
    /\ Runner(p).pc = "persist"
    /\ (p \in SyncTaskIds /\ ~ok) => sync_state.error_count < MaxErrors
    /\ IF ~ok
       THEN /\ EndSync(p, FALSE)
            /\ managerLock' = Unlock(managerLock, p)
            /\ stateLock' = Unlock(stateLock, p)
            /\ UNCHANGED data_manager
       ELSE CASE Runner(p).stage = "store" ->
                   /\ SyncGoto(p, "sync_lock_state", Runner(p).court_data,
                               "")
                   /\ UNCHANGED <<managerLock, stateLock, data_manager>>
              [] Runner(p).stage = "undisplayed" ->
                   ExpireAndReturn(p, data_manager)
              [] OTHER ->
                   /\ EndSync(p, TRUE)
                   /\ managerLock' = Unlock(managerLock, p)
                   /\ stateLock' = Unlock(stateLock, p)
                   /\ UNCHANGED data_manager
    /\ UNCHANGED <<liveVars, dataLock, updateLock, sync_state>>

(* ------------------------------------------------------------------ *)
(* The background task spawned by start_sync                          *)
(* ------------------------------------------------------------------ *)
\* interval_timer.tick().await: the first tick completes at once
SyncFirstTick(s) ==
    /\ NoneSuspendedAborted
    /\ sync_task[s].pc = "first_tick"
    /\ sync_task' = [sync_task EXCEPT ![s].pc = "tick"]
    /\ UNCHANGED <<liveVars, dataLock, updateLock, caller, syncLock,
                   stateLock, managerLock, sync_state, data_manager>>

\* the interval elapsed
SyncTimer(s) ==
    /\ NoneSuspendedAborted
    /\ sync_task[s].pc = "tick"
    /\ sync_task' = [sync_task EXCEPT ![s].pc = "lock_state"]
    /\ UNCHANGED <<liveVars, dataLock, updateLock, caller, syncLock,
                   stateLock, managerLock, sync_state, data_manager>>

\* the state is locked at the loop head: break when the service was
\* stopped, otherwise drop the guard and run perform_sync
SyncTaskLockState(s) ==
    /\ NoneSuspendedAborted
    /\ sync_task[s].pc = "lock_state"
    /\ stateLock = Free
    /\ IF ~sync_state.is_running
       THEN sync_task' = [sync_task EXCEPT ![s] = FreeSyncTask]
       ELSE sync_task' = [sync_task EXCEPT ![s].pc = "fetch_lock_data"]
    /\ UNCHANGED <<liveVars, dataLock, updateLock, caller, syncLock,
                   stateLock, managerLock, sync_state, data_manager>>

\* after a failed perform_sync the state is locked to count the error
SyncErrorLockState(s) ==
    /\ NoneSuspendedAborted
    /\ sync_task[s].pc = "error_lock_state"
    /\ stateLock = Free
    /\ sync_state' = [sync_state EXCEPT !.error_count = @ + 1]
    /\ sync_task' = [sync_task EXCEPT ![s].pc = "tick"]
    /\ UNCHANGED <<liveVars, dataLock, updateLock, caller, syncLock,
                   stateLock, managerLock, data_manager>>

\* JoinHandle::abort took effect: the future is dropped at an await, and
\* its guards with it
SyncTaskDropped(s) ==
    /\ SyncRunning(s)
    /\ sync_task[s].cancelled
    /\ sync_task' = [sync_task EXCEPT ![s] = FreeSyncTask]
    /\ dataLock' = Unlock(dataLock, s)
    /\ updateLock' = Unlock(updateLock, s)
    /\ stateLock' = Unlock(stateLock, s)
    /\ managerLock' = Unlock(managerLock, s)
    /\ UNCHANGED <<liveVars, caller, syncLock, sync_state, data_manager>>

(* ------------------------------------------------------------------ *)
(* Environment: the peer and the clock                                *)
(* ------------------------------------------------------------------ *)
Terminal(f) == f.kind \in {"close", "error", "end"}

\* the peer sends a frame (or the transport fails) on id's transport
Deliver(id, f) ==
    /\ NoneSuspendedAborted
    /\ id \in DOMAIN connections
    /\ ~connections[id].ended
    /\ Len(inbox[id]) < MaxInbox
    /\ \A i \in 1..Len(inbox[id]) : ~Terminal(inbox[id][i])
    /\ inbox' = [inbox EXCEPT ![id] = Append(@, f)]
    /\ UNCHANGED <<connections, listeners, cacheVars, lockVars, task,
                   caller, clockVars, syncVars, handles, filterArg>>

\* the seconds that pass between the instants at which the clock is
\* observed: 0, 2, 301, 302, ...
TickAmount(i) == IF i = 1 THEN 2 ELSE IF i = 2 THEN 299 ELSE 1

\* time passes up to the next observed instant
Tick ==
    /\ NoneSuspendedAborted
    /\ ticks < MaxTicks
    /\ ticks' = ticks + 1
    /\ now' = now + TickAmount(ticks + 1)
    /\ UNCHANGED <<connections, listeners, cacheVars, lockVars, task,
                   caller, inbox, handles, filterArg, syncVars>>

(* ------------------------------------------------------------------ *)
(* Inputs                                                             *)
(* ------------------------------------------------------------------ *)
UrlHost == WSS \o <<"h">>
UrlPlain == WS \o <<"h">>
UrlBare == <<"h">>
UrlEmpty == <<>>
\* "ws://h/ws://": the insecure scheme once more after the host
UrlNested == WS \o <<"h", "/">> \o WS

Scores == {1, 2}

\* text frames that reach the cache
MatchFrames == {MatchFrame(JStr(c), sc) : c \in {CourtA, CourtB}, sc \in Scores}

\* text frames the listener drops
DroppedTextFrames ==
    { TextFrame(DocInvalid),
      HeartbeatFrame,
      TextFrame(Doc(JAbsent, DataObj(JStr(CourtA), 1))),
      TextFrame(Doc(JStr(MATCH), DataAbsent)),
      TextFrame(Doc(JStr(MATCH), DataScalar)),
      MatchFrame(JAbsent, 1),
      MatchFrame(JNumber, 1),
      MatchFrame(JStr(CourtEmpty), 1),
      MatchFrame(JStr(CourtBlank), 1) }

ControlFrames == {Frame(k, DocInvalid) : k \in {"binary", "ping", "pong", "frame"}}

TerminalFrames == {CloseFrame, ErrorEvent, EndEvent}

(* ------------------------------------------------------------------ *)
(* Steps of the processes: every await that may complete              *)
(* ------------------------------------------------------------------ *)
\* the steps of listener task t that are its own (not its cancellation)
ListenerStep(t) ==
    \/ ListenerLockConnections(t)
    \/ ListenerNext(t)
    \/ ListenerLockData(t)
    \/ ListenerLockUpdate(t)
    \/ ListenerSleep(t)
    \/ \E ok \in BOOLEAN : ListenerReconnect(t, ok)
    \/ StoreConnection(t)

\* the awaits inside cleanup_old_data, for a task or a caller
CleanupStep(p) ==
    \/ CleanupLockData(p)
    \/ CleanupLockUpdate(p)

\* the awaits of the registry and listener commands of caller u
RegistryStep(u) ==
    \/ \E ok \in BOOLEAN : ConnectHandshake(u, ok)
    \/ StoreConnection(u)
    \/ DisconnectLock(u)
    \/ \E ok \in BOOLEAN : DisconnectClose(u, ok)
    \/ SendLock(u)
    \/ \E ok \in BOOLEAN : SendIo(u, ok)
    \/ StatusLock(u)

LifecycleStep(u) ==
    \/ StartLockListeners(u)
    \/ StartLockConnections(u)
    \/ StopLock(u)

(* ------------------------------------------------------------------ *)
(* Spec: one connection id, its listener and every registry command   *)
(* ------------------------------------------------------------------ *)
\* updates for two courts, one update the listener drops, and a close
\* frame (every other dropped message is sent in SpecProtocol)
MainFrames == {MatchFrame(JStr(CourtA), 1), MatchFrame(JStr(CourtB), 1),
               MatchFrame(JStr(CourtBlank), 1), CloseFrame}

MainStep ==
    \/ \E url \in {UrlHost, UrlEmpty}, f \in {NoFilter, CourtA} :
          CallConnect("u1", url, "A", f)
    \/ CallDisconnect("u1", "A")
    \/ CallStart("u1", "A")
    \/ CallStop("u1", "A")
    \/ CallSend("u1", "A")
    \/ CallStatus("u1", "A")
    \/ RegistryStep("u1")
    \/ LifecycleStep("u1")
    \/ \E t \in TaskIds : ListenerStep(t)
    \/ \E f \in MainFrames : Deliver("A", f)

Next ==
    \/ MainStep
    \/ \E t \in TaskIds : ListenerDropped(t)

Spec == Init /\ [][Next]_vars

(* ------------------------------------------------------------------ *)
(* SpecCache: one listener feeding the cache, the clock, the sweep    *)
(* and the active-courts query                                        *)
(* ------------------------------------------------------------------ *)
CourtX == <<"X">>

CacheFrames == {MatchFrame(JStr(CourtA), 1), MatchFrame(JStr(CourtB), 1)}

\* the active_courts arguments: none, or a court that is never cached
\* and one of the two that are
CacheRequests == {<<>>, <<CourtX, CourtB>>}

\* the listener's steps while its transport stays up
FeedStep(t) ==
    \/ ListenerLockConnections(t)
    \/ ListenerNext(t)
    \/ ListenerLockData(t)
    \/ ListenerLockUpdate(t)
    \/ ListenerDropped(t)

NextCache ==
    \/ CallConnect("u1", UrlHost, "A", NoFilter)
    \/ \E ok \in BOOLEAN : ConnectHandshake("u1", ok)
    \/ StoreConnection("u1")
    \/ CallStart("u1", "A")
    \/ LifecycleStep("u1")
    \/ CallStop("u1", "A")
    \/ \E r \in CacheRequests : CallGetActive("u1", r)
    \/ ActiveLockData("u1")
    \/ ActiveLockUpdate("u1")
    \/ CallCleanup("u1")
    \/ CleanupStep("u1")
    \/ CleanupCountLock("u1")
    \/ \E t \in TaskIds : FeedStep(t)
    \/ \E f \in CacheFrames : Deliver("A", f)
    \/ Tick

SpecCache == Init /\ [][NextCache]_vars

(* ------------------------------------------------------------------ *)
(* SpecRoundTrip: one listener feeding the cache, the sweep and the   *)
(* per-court query                                                    *)
(* ------------------------------------------------------------------ *)
\* two different updates for the same court
RoundTripFrames == {MatchFrame(JStr(CourtA), 1), MatchFrame(JStr(CourtA), 2)}

NextRoundTrip ==
    \/ CallConnect("u1", UrlHost, "A", NoFilter)
    \/ \E ok \in BOOLEAN : ConnectHandshake("u1", ok)
    \/ StoreConnection("u1")
    \/ CallStart("u1", "A")
    \/ LifecycleStep("u1")
    \/ CallStop("u1", "A")
    \/ \E c \in {CourtA, CourtX} : CallGetCourt("u1", c)
    \/ GetCourtLock("u1")
    \/ CallCleanup("u1")
    \/ CleanupStep("u1")
    \/ CleanupCountLock("u1")
    \/ \E t \in TaskIds : FeedStep(t)
    \/ \E f \in RoundTripFrames : Deliver("A", f)
    \/ Tick

SpecRoundTrip == Init /\ [][NextRoundTrip]_vars


(* ------------------------------------------------------------------ *)
(* SpecSweep: a feed that updates court "B" once, falls silent on it  *)
(* for more than the freshness window, and then keeps updating court  *)
(* "A" with numbered payloads                                         *)
(* ------------------------------------------------------------------ *)
\* court c has a timestamp older than the cleanup timeout
Stale(c) ==
    /\ c \in DOMAIN last_update
    /\ Age(last_update[c], now) > CleanupTimeoutSecs

\* the number the peer gives its next update of court "A"
NextScore ==
    IF CourtA \in DOMAIN latest_data_by_court
    THEN latest_data_by_court[CourtA].score + 1
    ELSE 1

\* the peer's next frame
SweepFrame ==
    IF Stale(CourtB)
    THEN MatchFrame(JStr(CourtA), NextScore)
    ELSE MatchFrame(JStr(CourtB), 0)

SweepFeed ==
    /\ NextScore <= MaxScore
    /\ Deliver("A", SweepFrame)

NextSweep ==
    \/ CallConnect("u1", UrlHost, "A", NoFilter)
    \/ \E ok \in BOOLEAN : ConnectHandshake("u1", ok)
    \/ StoreConnection("u1")
    \/ CallStart("u1", "A")
    \/ StartLockListeners("u1")
    \/ StartLockConnections("u1")
    \/ \E t \in TaskIds : ListenerLockConnections(t)
    \/ \E t \in TaskIds : ListenerNext(t)
    \/ \E t \in TaskIds : ListenerLockData(t)
    \/ \E t \in TaskIds : ListenerLockUpdate(t)
    \/ SweepFeed
    \/ Tick

SpecSweep == Init /\ [][NextSweep]_vars

(* ------------------------------------------------------------------ *)
(* SpecRegistry: one caller connects "A" and "B", another issues the  *)
(* other commands on them and on "C", which is never connected        *)
(* ------------------------------------------------------------------ *)
NextRegistry ==
    \/ \E url \in {UrlHost, UrlEmpty}, id \in {"A", "B"} :
          CallConnect("u1", url, id, NoFilter)
    \/ \E id \in ConnIds : CallDisconnect("u2", id)
    \/ \E id \in {"A", "C"} : CallSend("u2", id)
    \/ \E id \in {"A", "C"} : CallStart("u2", id)
    \/ \E id \in {"A", "C"} : CallStop("u2", id)
    \/ CallStatus("u2", "A")
    \/ \E u \in CallerIds : RegistryStep(u)
    \/ \E u \in CallerIds : LifecycleStep(u)
    \/ \E t \in TaskIds : FeedStep(t)
    \/ Deliver("A", MatchFrame(JStr(CourtA), 1))

SpecRegistry == Init /\ [][NextRegistry]_vars

(* ------------------------------------------------------------------ *)
(* Scheduling: the tokio runtime polls every task that can make       *)
(* progress, and a tokio Mutex serves its waiters in arrival order,   *)
(* so a step that is enabled again and again is eventually taken.     *)
(* Commands being issued, frames arriving and time passing are left   *)
(* to the environment.                                                *)
(* ------------------------------------------------------------------ *)
TaskFairness ==
    \A t \in TaskIds :
        /\ SF_vars(ListenerStep(t))
        /\ WF_vars(ListenerDropped(t))

CallerFairness ==
    \A u \in CallerIds : SF_vars(RegistryStep(u) \/ LifecycleStep(u))

(* ------------------------------------------------------------------ *)
(* SpecReconnect: one listener whose transport may close, fail or end *)
(* ------------------------------------------------------------------ *)
ReconnectFrames == {MatchFrame(JStr(CourtA), 1), CloseFrame, ErrorEvent,
                    EndEvent}

NextReconnect ==
    \/ CallConnect("u1", UrlHost, "A", NoFilter)
    \/ \E ok \in BOOLEAN : ConnectHandshake("u1", ok)
    \/ StoreConnection("u1")
    \/ CallStart("u1", "A")
    \/ LifecycleStep("u1")
    \/ CallStop("u1", "A")
    \/ \E t \in TaskIds : ListenerStep(t)
    \/ \E t \in TaskIds : ListenerDropped(t)
    \/ \E f \in ReconnectFrames : Deliver("A", f)

SpecReconnect ==
    Init /\ [][NextReconnect]_vars /\ TaskFairness /\ CallerFairness

(* ------------------------------------------------------------------ *)
(* SpecFair: two connection ids and two callers, one starting and     *)
(* stopping the listener of "A", the other that of "B"                *)
(* ------------------------------------------------------------------ *)
NextFair ==
    \/ \E id \in ConnIds : CallConnect("u1", UrlHost, id, NoFilter)
    \/ \E ok \in BOOLEAN : ConnectHandshake("u1", ok)
    \/ StoreConnection("u1")
    \/ CallStart("u1", "A")
    \/ CallStart("u2", "B")
    \/ CallStop("u1", "A")
    \/ CallStop("u2", "B")
    \/ \E u \in CallerIds : LifecycleStep(u)
    \/ \E t \in TaskIds : FeedStep(t)
    \/ \E id \in ConnIds : Deliver(id, MatchFrame(JStr(CourtA), 1))

SpecFair == Init /\ [][NextFair]_vars /\ TaskFairness /\ CallerFairness

(* ------------------------------------------------------------------ *)
(* Properties                                                         *)
(* ------------------------------------------------------------------ *)
\* the task currently awaiting a network event with the registry guard
WaitsOnNetwork(t) ==
    \/ task[t].pc = "next" /\ ~NextReady(task[t].id)
    \/ task[t].pc \in {"sleep", "reconnect"}

\* C3: the Registry lock is never held across a network wait: no
\* listener owns the WEBSOCKET_CONNECTIONS mutex while it waits for an
\* inbound frame, for its reconnection delay or for a handshake, so a
\* command that needs only the Registry never has to wait for them.
C3_RegistryLockNotHeldAcrossWait ==
    \A t \in TaskIds : connLock = t => ~WaitsOnNetwork(t)

\* the court key under which a frame's data is cached
FrameCourt(f) == f.doc.data.court.s

\* a match update in the wire format of the feed, with a court that is a
\* string and not blank (written out, not through TextOutcome)
IsAcceptedMatch(f) ==
    /\ f.kind = "text"
    /\ f.doc.valid
    /\ f.doc.type = JStr(MATCH)
    /\ f.doc.data.t = "obj"
    /\ f.doc.data.court.t = "str"
    /\ \E i \in 1..Len(FrameCourt(f)) : ~IsWhitespace(FrameCourt(f)[i])

C7_CachePairInvariant ==
    (dataLock = Free /\ updateLock = Free)
        => DOMAIN latest_data_by_court = DOMAIN last_update

\* the elements of a sequence
Range(q) == {q[i] : i \in 1..Len(q)}

\* the courts that have both a payload and a timestamp, and their age
Timestamped == DOMAIN latest_data_by_court \cap DOMAIN last_update

\* C1: with no court filter, a match update with a non-blank string court
\* c and data D that a listener reads is written to the cache under c as
\* D itself; the cached value of a court changes only by a later write
\* for that court or by its eviction in a sweep; and get_court(c)
\* returns the value cached for c at that moment, or nothing if c is not
\* cached. Hence get_court(c) returns D verbatim until a later write for
\* c or an eviction of c.
C1_RoundTrip ==
    [][/\ \A t \in TaskIds :
            /\ (task[t].pc = "next" /\ filterArg[task[t].id] = NoFilter
                   /\ IsAcceptedMatch(NextFrame(task[t].id))
                   /\ task'[t].pc \in {"lock_data", "loop", "sleep"})
                  => /\ task'[t].pc = "lock_data"
                     /\ task'[t].frame = NextFrame(task[t].id)
            /\ (task[t].pc = "lock_data" /\ task'[t].pc = "lock_update")
                  => /\ FrameCourt(task[t].frame) \in DOMAIN latest_data_by_court'
                     /\ latest_data_by_court'[FrameCourt(task[t].frame)]
                            = task[t].frame.doc.data
       /\ \A c \in DOMAIN latest_data_by_court :
            (c \notin DOMAIN latest_data_by_court'
               \/ latest_data_by_court'[c] # latest_data_by_court[c])
              => \/ \E t \in TaskIds :
                       /\ task[t].pc = "lock_data"
                       /\ task'[t].pc = "lock_update"
                       /\ FrameCourt(task[t].frame) = c
                 \/ \E u \in CallerIds :
                       /\ caller[u].pc = "cleanup_lock_update"
                       /\ caller'[u].pc = "cleanup_count_lock"
                       /\ c \in DOMAIN last_update
                       /\ now - last_update[c] > 300
                       /\ c \notin DOMAIN latest_data_by_court'
       /\ \A u \in CallerIds :
            (caller[u].pc = "get_lock" /\ caller'[u].pc = "idle")
              => /\ caller'[u].ret.status = "ok"
                 /\ caller'[u].ret.found
                       <=> caller[u].court \in DOMAIN latest_data_by_court
                 /\ caller'[u].ret.found
                       => caller'[u].ret.value
                             = latest_data_by_court[caller[u].court]
      ]_vars

\* C1 witness: after two updates for court "A", get_court("A") has
\* returned the second one, whole
C1_Witness ==
    /\ caller["u1"].pc = "idle"
    /\ caller["u1"].op = "get_court"
    /\ caller["u1"].court = CourtA
    /\ caller["u1"].ret.found
    /\ caller["u1"].ret.value = DataObj(JStr(CourtA), 2)
    /\ \E t \in TaskIds : Running(t) /\ filterArg[task[t].id] = NoFilter

\* C8: the sweep of cleanup() removes from both maps exactly the courts
\* whose age (now - last update) is more than 300 seconds and leaves every
\* other court as it was; and get_active_courts([]) taken at any instant
\* returns a timestamped court exactly when a sweep at that instant would
\* keep it (so an entry aged 301 s is removed and not returned, one aged
\* 299 s or 300 s is kept and returned).
C8_SweepExact ==
    [][\A u \in CallerIds :
          /\ (caller[u].pc = "cleanup_lock_update"
                /\ caller'[u].pc = "cleanup_count_lock")
               => LET stale == {c \in DOMAIN last_update :
                                   now - last_update[c] > 300}
                  IN /\ DOMAIN latest_data_by_court'
                           = DOMAIN latest_data_by_court \ stale
                     /\ DOMAIN last_update' = DOMAIN last_update \ stale
                     /\ \A c \in DOMAIN latest_data_by_court' :
                           latest_data_by_court'[c] = latest_data_by_court[c]
                     /\ \A c \in DOMAIN last_update' :
                           last_update'[c] = last_update[c]
                     /\ caller'[u].ret.removed = Cardinality(stale)
          /\ (caller[u].pc = "active_lock_update" /\ caller'[u].pc = "idle"
                /\ caller[u].requested = <<>>)
               => \A c \in Timestamped :
                     /\ c \in DOMAIN caller'[u].ret.courts
                          <=> c \notin CourtsToRemove(last_update, now)
                     /\ now - last_update[c] >= 301
                          => c \notin DOMAIN caller'[u].ret.courts
                     /\ now - last_update[c] <= 299
                          => c \in DOMAIN caller'[u].ret.courts
      ]_vars

\* C8 witness: cleanup() has run at instant 301 and removed court "A",
\* written at 0 (age 301), while court "B", written at 2 (age 299), stays
C8_Witness ==
    /\ caller["u1"].pc = "idle"
    /\ caller["u1"].op = "cleanup"
    /\ caller["u1"].ret.removed = 1
    /\ caller["u1"].ret.count = 1
    /\ now = 301
    /\ CourtA \notin DOMAIN latest_data_by_court
    /\ CourtA \notin DOMAIN last_update
    /\ CourtB \in Timestamped
    /\ now - last_update[CourtB] = 299

\* C9: get_active_courts(R) with R not empty returns ok with a mapping
\* whose keys are exactly the courts of R that are cached and whose age is
\* at most 300 seconds, each with its cached payload; nothing outside R,
\* and no error for a court that is missing or stale.
C9_ActiveRequested ==
    [][\A u \in CallerIds :
          (caller[u].pc = "active_lock_update" /\ caller'[u].pc = "idle"
             /\ caller[u].requested # <<>>)
            => /\ caller'[u].ret.status = "ok"
               /\ DOMAIN caller'[u].ret.courts
                     = {c \in Range(caller[u].requested) :
                           /\ c \in Timestamped
                           /\ now - last_update[c] <= 300}
               /\ \A c \in DOMAIN caller'[u].ret.courts :
                     caller'[u].ret.courts[c] = latest_data_by_court[c]
      ]_vars

\* C9 witness: get_active_courts(["X", "B"]) has returned "B" alone, aged
\* exactly 300 s: "X" is not cached, and "A", cached and fresh, was not
\* asked for
C9_Witness ==
    /\ caller["u1"].pc = "idle"
    /\ caller["u1"].op = "get_active_courts"
    /\ caller["u1"].requested = <<CourtX, CourtB>>
    /\ caller["u1"].ret.status = "ok"
    /\ DOMAIN caller["u1"].ret.courts = {CourtB}
    /\ caller["u1"].ret.courts[CourtB] = latest_data_by_court[CourtB]
    /\ CourtA \in Timestamped
    /\ CourtB \in Timestamped
    /\ now - last_update[CourtA] <= 300
    /\ now - last_update[CourtB] = 300

\* C10: get_active_courts([]) returns exactly the cached courts whose age
\* is at most 300 seconds, each with its cached payload: every fresh court
\* is there and every stale one is left out, evicted or not.
C10_ActiveFallback ==
    [][\A u \in CallerIds :
          (caller[u].pc = "active_lock_update" /\ caller'[u].pc = "idle"
             /\ caller[u].requested = <<>>)
            => /\ caller'[u].ret.status = "ok"
               /\ DOMAIN caller'[u].ret.courts
                     = {c \in Timestamped : now - last_update[c] <= 300}
               /\ \A c \in DOMAIN caller'[u].ret.courts :
                     caller'[u].ret.courts[c] = latest_data_by_court[c]
      ]_vars

\* C10 witness: get_active_courts([]) has returned "B" alone while the
\* stale "A" has not been evicted
C10_Witness ==
    /\ caller["u1"].pc = "idle"
    /\ caller["u1"].op = "get_active_courts"
    /\ caller["u1"].requested = <<>>
    /\ caller["u1"].ret.status = "ok"
    /\ DOMAIN caller["u1"].ret.courts = {CourtB}
    /\ CourtA \in Timestamped
    /\ CourtB \in Timestamped
    /\ now - last_update[CourtA] > 300
    /\ now - last_update[CourtB] <= 300

\* C2: a listener that lost its transport and whose next handshake
\* succeeded stores the new handle under its connection id and goes back
\* to the head of its loop (unless it is stopped meanwhile).
C2_ReconnectContinues ==
    \A t \in TaskIds :
        (task[t].pc = "store_connection")
            ~> \/ ~Running(t)
               \/ /\ task[t].pc = "loop"
                  /\ task[t].id \in DOMAIN connections
                  /\ ~connections[task[t].id].ended

\* the listener of connection id, if one is running
ListenerOf(id) == {t \in TaskIds : Running(t) /\ task[t].id = id}

\* C4: with listeners running for both "A" and "B", a match update
\* waiting on "B" is eventually read by B's listener, whatever happens on
\* "A" (unless a listener is stopped meanwhile).
C4_ListenersIndependent ==
    (/\ ListenerOf("A") # {}
     /\ ListenerOf("B") # {}
     /\ inbox["B"] # <<>>)
        ~> \/ inbox["B"] = <<>>
           \/ ListenerOf("A") = {}
           \/ ListenerOf("B") = {}

\* C5: a stop_listener call that has been issued eventually returns.
C5_StopReturns ==
    \A u \in CallerIds :
        (caller[u].op = "stop_listener" /\ caller[u].pc = "stop_lock")
            ~> (caller[u].op = "stop_listener" /\ caller[u].pc = "idle")

\* C11: the listener sweeps on every 100th cache write, so a court that
\* is stale does not outlast 100 further writes: once the listener has
\* completed the write of update number 100 sent after court "B" went
\* stale, "B" is no longer cached.
C11_SweepEveryHundredWrites ==
    (/\ CourtA \in Timestamped
     /\ latest_data_by_court[CourtA].score >= 100
     /\ \A t \in TaskIds : task[t].pc \in {"free", "loop", "next"})
        => ~(Stale(CourtB) /\ CourtB \in DOMAIN latest_data_by_court)

\* C12: a reconnection dials the URL of the connect call that registered
\* the id: the transport a listener has just opened for its id has the
\* URL of the transport registered under that id.
C12_ReconnectSameUrl ==
    \A t \in TaskIds :
        task[t].pc = "store_connection"
            => /\ task[t].id \in DOMAIN connections
               /\ task[t].handle.url = connections[task[t].id].url

\* the listener tasks of id that were spawned and have neither returned
\* nor been aborted
ActiveListeners(id) ==
    {t \in TaskIds : Running(t) /\ ~task[t].cancelled /\ task[t].id = id}

\* C13: at most one listener task is active per connection id, and it is
\* the one registered in the listener table; start_listener(id) that
\* finds an entry for id in the table returns success, spawns nothing and
\* leaves the table as it is.
C13_OneListenerPerId ==
    /\ [](\A id \in ConnIds :
             /\ Cardinality(ActiveListeners(id)) <= 1
             /\ \A t \in ActiveListeners(id) :
                   id \in DOMAIN listeners /\ listeners[id] = t)
    /\ [][\A u \in CallerIds :
             (/\ caller[u].pc = "start_lock_listeners"
              /\ caller'[u].pc # "start_lock_listeners"
              /\ caller[u].id \in DOMAIN listeners)
                => /\ caller'[u].pc = "idle"
                   /\ caller'[u].ret.status = "already_running"
                   /\ task' = task
                   /\ listeners' = listeners
         ]_vars

\* C13 witness: start_listener("A") has returned for the second time
\* and one listener is running for "A"
C13_Witness ==
    /\ caller["u1"].pc = "idle"
    /\ caller["u1"].op = "start_listener"
    /\ caller["u1"].ret.status = "already_running"
    /\ Cardinality(ActiveListeners("A")) = 1
    /\ Cardinality({t \in TaskIds : Running(t)}) = 1

\* C14: start_listener(id) that completes while no connection is
\* registered under id returns the not-found error, spawns no task and
\* leaves the listener table unchanged.
C14_StartWithoutConnection ==
    [][\A u \in CallerIds :
          (/\ caller[u].pc \in {"start_lock_listeners", "start_lock_connections"}
           /\ caller'[u].pc = "idle"
           /\ caller[u].id \notin DOMAIN connections)
             => /\ caller'[u].ret.status = "not_found"
                /\ task' = task
                /\ listeners' = listeners
      ]_vars

\* C15: stop_listener(id) returns an error whenever no listener task is
\* running for id, and returns ok only when it has cancelled a running
\* listener of id and removed it from the listener table.
C15_StopOnlyRunning ==
    [][\A u \in CallerIds :
          (caller[u].pc = "stop_lock" /\ caller'[u].pc = "idle")
             => LET running == {t \in TaskIds :
                                   Running(t) /\ ~task[t].cancelled
                                   /\ task[t].id = caller[u].id}
                IN /\ running = {} => caller'[u].ret.status = "not_found"
                   /\ caller'[u].ret.status = "ok"
                        => /\ running # {}
                           /\ \A t \in running : task'[t].cancelled
                           /\ caller[u].id \notin DOMAIN listeners'
      ]_vars

\* the steps of a command leave the registry, the listener table, the
\* cache and the tasks alone
Untouched == UNCHANGED <<connections, listeners, cacheVars, task, inbox>>

\* C16: "C" is never passed to connect. It is never in the registry nor
\* in the listener table; disconnect, send, start_listener and
\* stop_listener on "C" each return the not-found error, and no step of
\* theirs changes the registry, the listener table, the cache or a task.
C16_UnknownIdNotFound ==
    /\ []("C" \notin DOMAIN connections /\ "C" \notin DOMAIN listeners)
    /\ [][\A u \in CallerIds :
             (caller'[u].id = "C" /\ caller'[u] # caller[u])
                => /\ Untouched
                   /\ (caller[u].pc # "idle" /\ caller'[u].pc = "idle")
                         => /\ caller'[u].op \in {"disconnect", "send",
                                  "start_listener", "stop_listener"}
                            /\ caller'[u].ret.status = "not_found"
         ]_vars

\* C16 witness: disconnect("C") has returned not-found while "A" is
\* registered and has a running listener
C16_Witness ==
    /\ caller["u2"].pc = "idle"
    /\ caller["u2"].op = "disconnect"
    /\ caller["u2"].id = "C"
    /\ caller["u2"].ret.status = "not_found"
    /\ "A" \in DOMAIN connections
    /\ ActiveListeners("A") # {}

\* C17: the registry comes to hold the most recently opened transport of
\* an id: once a listener's reconnection handshake has succeeded, the
\* transport it opened (the newest one) is eventually the one registered.
C17_RegistryHoldsLatest ==
    \A t \in TaskIds :
        (task[t].pc = "store_connection")
            ~> (\E id \in DOMAIN connections : connections[id].n = handles)

\* C18: a connect whose normalised URL has nothing after the scheme is
\* rejected as invalid when it is called, before any handshake; a connect
\* whose handshake fails returns an error; both leave the registry
\* exactly as it was and open no transport.
C18_FailedConnectStoresNothing ==
    [][\A u \in CallerIds :
          /\ (/\ caller[u].pc = "idle"
              /\ caller'[u].op = "connect"
              /\ caller'[u] # caller[u])
                => /\ UNCHANGED <<connections, handles, inbox>>
                   /\ caller'[u].pc \in {"idle", "connect_handshake"}
                   /\ caller'[u].handle.url = WSS => caller'[u].pc = "idle"
                   /\ caller'[u].pc = "idle"
                         => caller'[u].ret.status = "invalid_url"
          /\ (caller[u].pc = "connect_handshake" /\ caller'[u].pc = "idle")
                => /\ caller'[u].ret.status = "connect_failed"
                   /\ UNCHANGED <<connections, handles, inbox>>
      ]_vars

\* C18 witness: connect("", "A") has been rejected and the transport
\* registered under "A" before is still there
C18_Witness ==
    /\ caller["u1"].pc = "idle"
    /\ caller["u1"].op = "connect"
    /\ caller["u1"].id = "A"
    /\ caller["u1"].handle.url = WSS
    /\ caller["u1"].ret.status = "invalid_url"
    /\ "A" \in DOMAIN connections
    /\ connections["A"].n = 1

\* C19: disconnect(id) on a registered id removes that handle and no
\* other, and returns ok whether or not close() succeeded; an id comes
\* back into the registry only when a connect or a reconnection stores a
\* transport; is_connected answers by the registry and send on an id that
\* is not registered returns not-found.
C19_DisconnectRemoves ==
    [][/\ \A u \in CallerIds :
            /\ (/\ caller[u].pc = "disconnect_lock"
                /\ caller'[u].pc # "disconnect_lock"
                /\ caller[u].id \in DOMAIN connections)
                  => /\ caller'[u].pc = "disconnect_close"
                     /\ DOMAIN connections' = DOMAIN connections \ {caller[u].id}
                     /\ \A id \in DOMAIN connections' :
                           connections'[id] = connections[id]
            /\ (caller[u].pc = "disconnect_close" /\ caller'[u].pc = "idle")
                  => /\ caller'[u].ret.status = "ok"
                     /\ connections' = connections
                     /\ caller[u].id \notin DOMAIN connections
            /\ (caller[u].pc = "status_lock" /\ caller'[u].pc = "idle")
                  => (caller'[u].ret.found
                         <=> caller[u].id \in DOMAIN connections)
            /\ (/\ caller[u].pc = "send_lock"
                /\ caller'[u].pc # "send_lock"
                /\ caller[u].id \notin DOMAIN connections)
                  => /\ caller'[u].pc = "idle"
                     /\ caller'[u].ret.status = "not_found"
       /\ \A id \in DOMAIN connections' \ DOMAIN connections :
            \/ \E u \in CallerIds :
                  caller[u].pc = "store_connection" /\ caller[u].id = id
            \/ \E t \in TaskIds :
                  task[t].pc = "store_connection" /\ task[t].id = id
      ]_vars

\* C19 witness: disconnect("A") has returned ok; "A" is gone from the
\* registry and "B" is still registered
C19_Witness ==
    /\ caller["u2"].pc = "idle"
    /\ caller["u2"].op = "disconnect"
    /\ caller["u2"].id = "A"
    /\ caller["u2"].ret.status = "ok"
    /\ "A" \notin DOMAIN connections
    /\ "B" \in DOMAIN connections

\* the step in which disconnect removes id's handle
Removes(u, id) ==
    /\ caller[u].pc = "disconnect_lock"
    /\ caller[u].id = id
    /\ id \in DOMAIN connections
    /\ id \notin DOMAIN connections'

\* listener t completes a cache write (payload or timestamp)
Writes(t) ==
    \/ task[t].pc = "lock_data" /\ task'[t].pc = "lock_update"
    \/ task[t].pc = "lock_update" /\ task'[t].pc # "lock_update"

\* C20 (as stated): a listener whose connection was removed by disconnect
\* while it was running is not cancelled by the disconnect, ends at its
\* next loop iteration, and writes nothing to the cache after the
\* disconnect.
C20_ListenerExitsAfterDisconnect ==
    [][\A t \in TaskIds :
          /\ (\E u \in CallerIds : Removes(u, task[t].id))
                => task'[t].cancelled = task[t].cancelled
          /\ (task[t].orphaned /\ ~task[t].cancelled)
                => /\ ~Writes(t)
                   /\ (task[t].pc = "loop" /\ task'[t].pc # "loop")
                         => task'[t].pc \in {"done", "free"}
      ]_vars

\* C20 (amended): disconnect cancels no task; a running listener of the
\* id it removes is at its loop head at that moment, so it has no write
\* under way; a listener that locks the registry and finds its id missing
\* ends there without touching the cache, and one that goes on to read
\* has found its id registered (again).
C20_ListenerExitsIfStillMissing ==
    [][\A t \in TaskIds :
          /\ (\E u \in CallerIds : Removes(u, task[t].id))
                => /\ task'[t].cancelled = task[t].cancelled
                   /\ task'[t].pc = task[t].pc
                   /\ Running(t) => task[t].pc = "loop"
          /\ (task[t].pc = "loop" /\ task'[t].pc # "loop"
                /\ ~task[t].cancelled)
                => IF task[t].id \in DOMAIN connections
                   THEN task'[t].pc = "next"
                   ELSE /\ task'[t].pc \in {"done", "free"}
                        /\ UNCHANGED cacheVars
          /\ Writes(t) => task[t].id \in DOMAIN connections
      ]_vars

\* C20 witness: the connection of a running listener was removed by
\* disconnect, connect registered the id again before the listener
\* looked, and the listener has written to the cache since
C20_Witness ==
    \E t \in TaskIds :
        /\ task[t].orphaned
        /\ ~task[t].cancelled
        /\ task[t].pc = "lock_update"
        /\ task[t].id \in DOMAIN connections
        /\ FrameCourt(task[t].frame) \in DOMAIN latest_data_by_court

(* ------------------------------------------------------------------ *)
(* SpecProtocol: one listener whose peer sends, besides an update,    *)
(* every kind of message the listener has no use for                  *)
(* ------------------------------------------------------------------ *)
ProtocolFrames ==
    DroppedTextFrames \cup ControlFrames \cup {MatchFrame(JStr(CourtA), 1)}

NextProtocol ==
    \/ CallConnect("u1", UrlHost, "A", NoFilter)
    \/ \E ok \in BOOLEAN : ConnectHandshake("u1", ok)
    \/ StoreConnection("u1")
    \/ CallStart("u1", "A")
    \/ StartLockListeners("u1")
    \/ StartLockConnections("u1")
    \/ \E t \in TaskIds : ListenerLockConnections(t)
    \/ \E t \in TaskIds : ListenerNext(t)
    \/ \E t \in TaskIds : ListenerLockData(t)
    \/ \E t \in TaskIds : ListenerLockUpdate(t)
    \/ \E f \in ProtocolFrames : Deliver("A", f)

SpecProtocol == Init /\ [][NextProtocol]_vars

\* listener t takes the message f off its transport in this step
Reads(t, f) ==
    /\ task[t].pc = "next"
    /\ inbox[task[t].id] # <<>>
    /\ Head(inbox[task[t].id]) = f
    /\ inbox'[task[t].id] = Tail(inbox[task[t].id])

\* the step leaves the cache, the registry and the listener table as
\* they are, and takes t back to the head of its loop with the registry
\* guard dropped: no write, no reconnection delay, no termination
Skips(t) ==
    /\ UNCHANGED <<cacheVars, connections, listeners>>
    /\ task'[t].pc = "loop"
    /\ task[t].id \in DOMAIN connections'
    /\ connLock = t
    /\ connLock' = Free

\* C21: a heartbeat text frame never alters the cache and never ends the
\* listener: the step that reads it changes neither map, leaves the
\* connection registered, starts no reconnection and takes the listener
\* back to its loop head, from where its next step of its own is to lock
\* the registry and wait for the next frame.
C21_HeartbeatIgnored ==
    [][\A t \in TaskIds :
          /\ Reads(t, HeartbeatFrame) => Skips(t)
          /\ (task[t].pc = "loop" /\ task[t].skipped = HeartbeatFrame
                 /\ task'[t].pc \notin {"loop", "free"})
                => task'[t].pc = "next"
      ]_vars

\* C21 witness: a listener has just read a heartbeat and stands at its
\* loop head, its connection registered and the registry lock free
C21_Witness ==
    \E t \in TaskIds :
        /\ task[t].pc = "loop"
        /\ task[t].skipped = HeartbeatFrame
        /\ ~task[t].cancelled
        /\ task[t].id \in DOMAIN connections
        /\ connLock = Free

\* a message the feed protocol has no meaning for: text that is not
\* JSON, has no type, a type other than MATCH or no data object, and
\* the binary, ping and pong messages
IsProtocolError(f) ==
    \/ f.kind \in {"binary", "ping", "pong"}
    \/ /\ f.kind = "text"
       /\ \/ ~f.doc.valid
          \/ f.doc.type = JAbsent
          \/ f.doc.type # JStr(MATCH)
          \/ f.doc.data.t # "obj"

\* C22: protocol errors are never fatal: the step in which a listener
\* reads a text frame that is not valid JSON, has no type tag, a tag
\* other than MATCH or no data object, or a binary, ping or pong frame,
\* leaves the cache and the registry unchanged, starts no reconnection
\* and takes the listener back to its loop head with the registry guard
\* dropped.
C22_ProtocolErrorsSkipped ==
    [][\A t \in TaskIds : \A f \in ProtocolFrames :
          (IsProtocolError(f) /\ Reads(t, f)) => Skips(t)
      ]_vars

\* C22 witness: with court "A" cached, a listener has just read a text
\* frame that is not JSON and stands at its loop head
C22_Witness ==
    \E t \in TaskIds :
        /\ task[t].pc = "loop"
        /\ task[t].skipped = TextFrame(DocInvalid)
        /\ ~task[t].cancelled
        /\ task[t].id \in DOMAIN connections
        /\ CourtA \in Timestamped
        /\ connLock = Free

\* a match update with a data object whose court is absent, not a
\* string, empty or made of whitespace only
HasNoCourt(f) ==
    /\ f.kind = "text"
    /\ f.doc.valid
    /\ f.doc.type = JStr(MATCH)
    /\ f.doc.data.t = "obj"
    /\ \/ f.doc.data.court.t # "str"
       \/ \A i \in 1..Len(f.doc.data.court.s) :
              IsWhitespace(f.doc.data.court.s[i])

\* the court keys of either cache map
CachedCourts == DOMAIN latest_data_by_court \cup DOMAIN last_update

\* C23: a match update whose data.court is absent, not a string, empty
\* or whitespace-only never creates or modifies a cache entry: the step
\* that reads it changes neither the payload map nor the timestamp map,
\* leaves the listener running at its loop head and drops the registry
\* guard; and no key of either map is ever empty or whitespace-only.
C23_BlankCourtNotCached ==
    /\ [](\A c \in CachedCourts : \E i \in 1..Len(c) : ~IsWhitespace(c[i]))
    /\ [][\A t \in TaskIds : \A f \in ProtocolFrames :
             (HasNoCourt(f) /\ Reads(t, f)) => Skips(t)
         ]_vars

\* C23 witness: with court "A" cached, a listener has just read an
\* update for the court "  " and stands at its loop head
C23_Witness ==
    \E t \in TaskIds :
        /\ task[t].pc = "loop"
        /\ task[t].skipped = MatchFrame(JStr(CourtBlank), 1)
        /\ ~task[t].cancelled
        /\ CachedCourts = {CourtA}
        /\ connLock = Free

(* ------------------------------------------------------------------ *)
(* SpecOrder: a peer that numbers its updates of courts "A" and "B"   *)
(* in the order it sends them on connection "A", and sends up to      *)
(* MaxBurst of them ahead of the listener                             *)
(* ------------------------------------------------------------------ *)
\* the number of an update
Number(f) == f.doc.data.score

\* the listeners that have read an update and not finished writing it
Holding == {t \in TaskIds : task[t].pc \in {"lock_data", "lock_update"}}

\* the highest number among the updates buffered, held or cached: the
\* number of the update the peer sent last
LastNumber ==
    LET seen == {Number(inbox["A"][i]) : i \in 1..Len(inbox["A"])}
                  \cup {Number(task[t].frame) : t \in Holding}
                  \cup {latest_data_by_court[c].score :
                           c \in DOMAIN latest_data_by_court}
                  \cup {0}
    IN CHOOSE n \in seen : \A m \in seen : m <= n

\* the peer sends its next update, for court c
OrderedFeed(c) ==
    /\ NoneSuspendedAborted
    /\ "A" \in DOMAIN connections
    /\ ~connections["A"].ended
    /\ Len(inbox["A"]) < MaxBurst
    /\ LastNumber < MaxSeq
    /\ inbox' = [inbox EXCEPT
           !["A"] = Append(@, MatchFrame(JStr(c), LastNumber + 1))]
    /\ UNCHANGED <<connections, listeners, cacheVars, lockVars, task,
                   caller, clockVars, syncVars, handles, filterArg>>

NextOrder ==
    \/ CallConnect("u1", UrlHost, "A", NoFilter)
    \/ \E ok \in BOOLEAN : ConnectHandshake("u1", ok)
    \/ StoreConnection("u1")
    \/ CallStart("u1", "A")
    \/ StartLockListeners("u1")
    \/ StartLockConnections("u1")
    \/ \E t \in TaskIds : ListenerLockConnections(t)
    \/ \E t \in TaskIds : ListenerNext(t)
    \/ \E t \in TaskIds : ListenerLockData(t)
    \/ \E t \in TaskIds : ListenerLockUpdate(t)
    \/ \E c \in {CourtA, CourtB} : OrderedFeed(c)
    \/ Tick

SpecOrder == Init /\ [][NextOrder]_vars

\* C24: within one connection frames are processed in receipt order.
\* With the updates numbered in the order they were sent: the update a
\* listener holds between its read and its write is older than every
\* update still unread on its connection and newer than what is cached
\* for its court; the number cached for a court never decreases, so
\* once the frames are processed the cache holds the last update sent
\* for each court; and the timestamp of a court never moves backwards.
C24_ReceiptOrder ==
    /\ [](\A t \in Holding :
             /\ \A i \in 1..Len(inbox[task[t].id]) :
                    Number(task[t].frame) < Number(inbox[task[t].id][i])
             /\ (task[t].pc = "lock_data"
                   /\ FrameCourt(task[t].frame) \in DOMAIN latest_data_by_court)
                  => latest_data_by_court[FrameCourt(task[t].frame)].score
                        < Number(task[t].frame)
             /\ task[t].pc = "lock_update"
                  => latest_data_by_court[FrameCourt(task[t].frame)]
                        = task[t].frame.doc.data)
    /\ [][/\ \A c \in DOMAIN latest_data_by_court :
                /\ c \in DOMAIN latest_data_by_court'
                /\ latest_data_by_court'[c].score
                      >= latest_data_by_court[c].score
           /\ \A k \in DOMAIN last_update :
                /\ k \in DOMAIN last_update'
                /\ last_update'[k] >= last_update[k]
         ]_vars

\* C24 witness: of a burst of two updates for court "A" the listener
\* has written the older one, number 2, over number 1, and the newer
\* one is still unread
C24_Witness ==
    \E t \in TaskIds :
        /\ task[t].pc = "lock_update"
        /\ task[t].frame = MatchFrame(JStr(CourtA), 2)
        /\ latest_data_by_court[CourtA].score = 2
        /\ CourtA \in DOMAIN last_update
        /\ inbox["A"] = <<MatchFrame(JStr(CourtA), 3)>>

\* C25: reconnection is bounded. A listener enters a reconnection delay
\* only by reading a close frame, an error or the end of its stream;
\* the delay is followed by exactly one attempt; and the attempt either
\* succeeds or ends the task, which then holds no registry guard: there
\* is no way back from a failed attempt to another delay or attempt.
C25_ReconnectBounded ==
    [][\A t \in TaskIds :
          /\ (task'[t].pc = "sleep" /\ task[t].pc # "sleep")
                => /\ task[t].pc = "next"
                   /\ Terminal(NextFrame(task[t].id))
          /\ (task'[t].pc = "reconnect" /\ task[t].pc # "reconnect")
                => task[t].pc = "sleep"
          /\ (task[t].pc = "sleep" /\ task'[t].pc # "sleep")
                => task'[t].pc \in {"reconnect", "free"}
          /\ (task[t].pc = "reconnect"
                 /\ task'[t].pc \notin {"reconnect", "store_connection"})
                => /\ task'[t].pc \in {"done", "free"}
                   /\ connLock' # t
      ]_vars

\* C25 witness: a listener has read the end of its transport, its one
\* reconnection attempt has failed and the task has returned
C25_Witness ==
    \E t \in TaskIds :
        /\ task[t].pc = "done"
        /\ task[t].id \in DOMAIN connections
        /\ connections[task[t].id].ended
        /\ handles = 1
        /\ connLock = Free

\* C27: when a reconnection attempt fails and the listener gives up,
\* the connection id is Disconnected: the transport the listener gave up
\* on is not registered under the id any more (the id is registered
\* again only by a new connect, with a new transport), so is_connected
\* answers false.
C27_GivenUpIsDisconnected ==
    \A t \in TaskIds :
        task[t].pc = "done"
            => ~(/\ task[t].id \in DOMAIN connections
                 /\ connections[task[t].id].ended)

(* ------------------------------------------------------------------ *)
(* SpecUrl: one caller connects "A" and starts its listener, the      *)
(* other probes endpoints; both are given URLs of every shape         *)
(* ------------------------------------------------------------------ *)
UrlInputs == {UrlHost, UrlPlain, UrlBare, UrlEmpty, UrlNested}

NextUrl ==
    \/ \E url \in UrlInputs : CallConnect("u1", url, "A", NoFilter)
    \/ \E ok \in BOOLEAN : ConnectHandshake("u1", ok)
    \/ StoreConnection("u1")
    \/ CallStart("u1", "A")
    \/ StartLockListeners("u1")
    \/ StartLockConnections("u1")
    \/ \E t \in TaskIds : ListenerLockConnections(t)
    \/ \E t \in TaskIds : ListenerNext(t)
    \/ \E t \in TaskIds : ListenerLockData(t)
    \/ \E t \in TaskIds : ListenerLockUpdate(t)
    \/ Deliver("A", MatchFrame(JStr(CourtA), 1))
    \/ \E url \in UrlInputs : CallTest("u2", url)
    \/ \E outcome \in TestOutcomes : TestHandshake("u2", outcome)
    \/ \E ok \in BOOLEAN : TestClose("u2", ok)

SpecUrl == Init /\ [][NextUrl]_vars

\* C28: test_connection registers nothing. Every step of a
\* test_connection call, from its invocation to its return, whatever
\* the URL and the outcome of the handshake, leaves the registry, the
\* listener table, both cache maps, the listener tasks, the buffered
\* frames and the four locks as they were.
C28_TestRegistersNothing ==
    [][\A u \in CallerIds :
          (caller'[u] # caller[u] /\ caller'[u].op = "test_connection")
              => /\ Untouched
                 /\ UNCHANGED <<lockVars, handles>>
      ]_vars

\* C28 witness: with "A" registered, its listener running and court "A"
\* cached, a test_connection call has connected, closed and returned
\* true
C28_Witness ==
    /\ Idle("u2")
    /\ caller["u2"].op = "test_connection"
    /\ caller["u2"].ret.status = "ok"
    /\ DOMAIN connections = {"A"}
    /\ DOMAIN listeners = {"A"}
    /\ CourtA \in Timestamped

\* a connect or test_connection call that has normalised its URL: the
\* argument is in ws_url, the normalised URL in handle.url
Normalised(u) ==
    /\ caller[u].op \in {"connect", "test_connection"}
    /\ \/ caller[u].pc \in {"connect_handshake", "test_handshake"}
       \/ caller[u].ret.status = "invalid_url"

\* C29: URL normalisation, in connect and test_connection, yields a URL
\* that starts with wss://: for an input starting with ws:// that prefix
\* is rewritten to wss:// (the rest of the input is kept), an input
\* with neither scheme gets wss:// prepended, an input starting with
\* wss:// is returned unchanged; and normalising the result again
\* changes nothing.
C29_NormalizeUrl ==
    \A u \in CallerIds :
        Normalised(u) =>
            LET in == caller[u].ws_url
                out == caller[u].handle.url
            IN /\ StartsWith(out, WSS)
               /\ StartsWith(in, WS)
                     => out = WSS \o SubSeq(in, Len(WS) + 1, Len(in))
               /\ (~StartsWith(in, WS) /\ ~StartsWith(in, WSS))
                     => out = WSS \o in
               /\ StartsWith(in, WSS) => out = in
               /\ NormalizeUrl(out) = out

(* ------------------------------------------------------------------ *)
(* SpecThreshold: a feed that names a new court in every update, up   *)
(* to the entry count at which a write runs the cleanup               *)
(* ------------------------------------------------------------------ *)
Digits == <<"0", "1", "2", "3", "4", "5", "6", "7", "8", "9">>

\* the name of the n-th court of the feed: "00", "01", ...
Court(n) == <<Digits[(n \div 10) + 1], Digits[(n % 10) + 1]>>

\* the courts the peer has named so far: cached, buffered, or read and
\* not yet inserted
CourtsSent ==
    Cardinality(DOMAIN latest_data_by_court)
        + Len(inbox["A"])
        + Cardinality({t \in TaskIds : task[t].pc = "lock_data"})

\* the peer sends an update for the next court
ThresholdFeed ==
    /\ CourtsSent < CleanupEvery
    /\ Deliver("A", MatchFrame(JStr(Court(CourtsSent)), 1))

\* the awaits of the cache queries of caller u outside cleanup_old_data
QueryStep(u) ==
    \/ GetCourtLock(u)
    \/ ActiveLockData(u)
    \/ ActiveLockUpdate(u)
    \/ CleanupCountLock(u)

NextThreshold ==
    \/ CallConnect("u1", UrlHost, "A", NoFilter)
    \/ \E ok \in BOOLEAN : ConnectHandshake("u1", ok)
    \/ StoreConnection("u1")
    \/ CallStart("u1", "A")
    \/ StartLockListeners("u1")
    \/ StartLockConnections("u1")
    \/ \E t \in TaskIds : ListenerLockConnections(t)
    \/ \E t \in TaskIds : ListenerNext(t)
    \/ \E t \in TaskIds : ListenerLockData(t)
    \/ \E t \in TaskIds : ListenerLockUpdate(t)
    \/ \E p \in TaskIds \cup {"u1"} : CleanupStep(p)
    \/ ThresholdFeed
    \/ CallCleanup("u1")
    \/ CleanupCountLock("u1")

SpecThreshold == Init /\ [][NextThreshold]_vars

(* ------------------------------------------------------------------ *)
(* SpecQueries: the same feed two courts short of that entry count,   *)
(* while a second caller queries the cache                            *)
(* ------------------------------------------------------------------ *)
\* the courts an earlier feed has left in the cache
Loaded == {Court(n) : n \in 0..(CleanupEvery - 3)}

\* the state of SpecThreshold's feed after CleanupEvery - 2 updates, its
\* listener stopped and its connection closed
InitLoaded ==
    /\ connections = EmptyMap
    /\ listeners = EmptyMap
    /\ latest_data_by_court = [c \in Loaded |-> DataObj(JStr(c), 1)]
    /\ last_update = [c \in Loaded |-> 0]
    /\ connLock = Free
    /\ listenersLock = Free
    /\ dataLock = Free
    /\ updateLock = Free
    /\ task = [t \in TaskIds |-> FreeTask]
    /\ caller = [u \in CallerIds |-> IdleCaller]
    /\ inbox = [id \in ConnIds |-> <<>>]
    /\ now = 0
    /\ ticks = 0
    /\ handles = 0
    /\ filterArg = [id \in ConnIds |-> NoFilter]
    /\ InitSync

NextQueries ==
    \/ CallConnect("u1", UrlHost, "A", NoFilter)
    \/ \E ok \in BOOLEAN : ConnectHandshake("u1", ok)
    \/ StoreConnection("u1")
    \/ CallStart("u1", "A")
    \/ StartLockListeners("u1")
    \/ StartLockConnections("u1")
    \/ \E t \in TaskIds : ListenerLockConnections(t)
    \/ \E t \in TaskIds : ListenerNext(t)
    \/ \E t \in TaskIds : ListenerLockData(t)
    \/ \E t \in TaskIds : ListenerLockUpdate(t)
    \/ \E p \in TaskIds \cup {"u2"} : CleanupStep(p)
    \/ ThresholdFeed
    \/ CallGetCourt("u2", Court(0))
    \/ CallGetActive("u2", <<Court(0)>>)
    \/ CallCleanup("u2")
    \/ QueryStep("u2")

\* the cache mutexes serve their waiters in arrival order, like the
\* registry mutex
QueryFairness ==
    \A u \in CallerIds : SF_vars(QueryStep(u) \/ CleanupStep(u))

SpecQueries ==
    InitLoaded /\ [][NextQueries]_vars /\ TaskFairness /\ QueryFairness

\* C30: a listener never waits for a lock that it is itself holding:
\* not for the payload map or the timestamp map when its write runs the
\* automatic sweep, not for the registry when it stores a reconnection.
C30_NoSelfWait ==
    \A t \in TaskIds :
        /\ ~(task[t].pc = "cleanup_lock_data" /\ dataLock = t)
        /\ ~(task[t].pc = "cleanup_lock_update" /\ updateLock = t)
        /\ ~(task[t].pc = "store_connection" /\ connLock = t)

\* caller u is inside a cache query
Querying(u) ==
    /\ caller[u].op \in {"get_court", "get_active_courts", "cleanup"}
    /\ ~Idle(u)

\* C26: cache queries never block: a get_court, get_active_courts or
\* cleanup call that has been invoked returns, whatever the listeners
\* are doing.
C26_QueriesComplete ==
    \A u \in CallerIds : Querying(u) ~> Idle(u)

\* listener t completes the registry insert of attempt_reconnection
Inserts(t) == task[t].pc = "store_connection" /\ task'[t].pc = "loop"

\* the locks task t owns
LocksOf(t) ==
    {l \in {"connections", "listeners", "data", "update"} :
        CASE l = "connections" -> connLock = t
          [] l = "listeners" -> listenersLock = t
          [] l = "data" -> dataLock = t
          [] OTHER -> updateLock = t}

\* C31: stop_listener(id) that returns ok leaves id absent from the
\* listener table; from then on the cancelled listener completes no
\* cache write and no registry insert; and a listener that is gone owns
\* none of the locks.
C31_StoppedListenerInert ==
    /\ [][/\ \A u \in CallerIds :
                (/\ caller[u].pc = "stop_lock"
                 /\ caller'[u].pc = "idle"
                 /\ caller'[u].ret.status = "ok")
                   => caller[u].id \notin DOMAIN listeners'
          /\ \A t \in TaskIds :
                task[t].cancelled => ~Writes(t) /\ ~Inserts(t)
        ]_vars
    /\ [](\A t \in TaskIds : ~Running(t) => LocksOf(t) = {})

\* the listener of id has returned by itself (its connection was gone at
\* the loop head, or its reconnection failed) and was not stopped since
EndedByItself(id) == \E t \in TaskIds : task[t].pc = "done" /\ task[t].id = id

\* C32: a listener can be restarted after it ended on its own: when
\* start_listener(id) completes after such an end and after a successful
\* connect(id), a listener is running for id.
C32_RestartAfterExit ==
    [][\A u \in CallerIds :
          (/\ caller[u].op = "start_listener"
           /\ ~Idle(u)
           /\ caller'[u].pc = "idle"
           /\ EndedByItself(caller[u].id)
           /\ caller[u].id \in DOMAIN connections
           /\ ~connections[caller[u].id].ended)
             => \E t \in TaskIds :
                   /\ task'[t].pc \notin {"free", "done"}
                   /\ task'[t].id = caller[u].id
      ]_vars

\* C33: a disconnected id is never resurrected: when disconnect(id)
\* returns ok the id is absent from the registry, and an absent id
\* enters the registry only by the store step of a successful
\* connect(id), never by the reconnection of a listener.
C33_NoResurrection ==
    [][\A id \in ConnIds :
          /\ \A u \in CallerIds :
                (/\ caller[u].pc = "disconnect_close"
                 /\ caller[u].id = id
                 /\ caller'[u].pc = "idle"
                 /\ caller'[u].ret.status = "ok")
                   => id \notin DOMAIN connections'
          /\ (id \notin DOMAIN connections /\ id \in DOMAIN connections')
                => \E u \in CallerIds :
                      /\ caller[u].op = "connect"
                      /\ caller[u].id = id
                      /\ caller[u].pc = "store_connection"
                      /\ caller'[u].pc = "idle"
                      /\ caller'[u].ret.status = "ok"
      ]_vars

\* C33 witness: disconnect("A") has returned ok while a listener of "A"
\* was running; the id is absent and the listener has not yet looked
C33_Witness ==
    /\ caller["u1"].pc = "idle"
    /\ caller["u1"].op = "disconnect"
    /\ caller["u1"].id = "A"
    /\ caller["u1"].ret.status = "ok"
    /\ "A" \notin DOMAIN connections
    /\ \E t \in TaskIds :
          /\ task[t].id = "A"
          /\ task[t].orphaned
          /\ task[t].pc = "loop"
          /\ ~task[t].cancelled

(* ------------------------------------------------------------------ *)
(* SpecEffects: one caller issues the registry and listener commands  *)
(* on "A", another the cache queries and the sweep, while the         *)
(* listener of "A" feeds the cache and time passes                    *)
(* ------------------------------------------------------------------ *)
NextEffects ==
    \/ CallConnect("u1", UrlHost, "A", NoFilter)
    \/ CallDisconnect("u1", "A")
    \/ CallStart("u1", "A")
    \/ CallStop("u1", "A")
    \/ CallSend("u1", "A")
    \/ CallStatus("u1", "A")
    \/ RegistryStep("u1")
    \/ LifecycleStep("u1")
    \/ CallGetCourt("u2", CourtA)
    \/ GetCourtLock("u2")
    \/ CallGetActive("u2", <<>>)
    \/ ActiveLockData("u2")
    \/ ActiveLockUpdate("u2")
    \/ CallCleanup("u2")
    \/ CleanupStep("u2")
    \/ CleanupCountLock("u2")
    \/ \E t \in TaskIds : FeedStep(t)
    \/ Deliver("A", MatchFrame(JStr(CourtA), 1))
    \/ Tick

SpecEffects == Init /\ [][NextEffects]_vars

\* the commands that are neither the listener nor the sweep
CacheBystanders ==
    {"connect", "disconnect", "send", "start_listener", "stop_listener",
     "is_connected", "get_court", "get_active_courts"}

\* C34: the payload map and the timestamp map change only when a
\* listener stores an accepted match update (an insert under that
\* update's court) or when the sweep removes courts; no step of connect,
\* disconnect, send, start_listener, stop_listener, is_connected,
\* get_court or get_active_courts changes either map.
C34_CacheFrame ==
    [][/\ latest_data_by_court' # latest_data_by_court
            => \/ \E t \in TaskIds :
                     /\ task[t].pc = "lock_data"
                     /\ task'[t].pc = "lock_update"
                     /\ IsAcceptedMatch(task[t].frame)
                     /\ latest_data_by_court' =
                            Insert(latest_data_by_court,
                                   FrameCourt(task[t].frame),
                                   task[t].frame.doc.data)
               \/ \E p \in TaskIds \cup CallerIds :
                     /\ PcOf(p) = "cleanup_lock_update"
                     /\ DOMAIN latest_data_by_court'
                            \subseteq DOMAIN latest_data_by_court
       /\ last_update' # last_update
            => \/ \E t \in TaskIds :
                     /\ task[t].pc = "lock_update"
                     /\ task'[t].pc # "lock_update"
                     /\ IsAcceptedMatch(task[t].frame)
                     /\ last_update' =
                            Insert(last_update, FrameCourt(task[t].frame),
                                   now)
               \/ \E p \in TaskIds \cup CallerIds :
                     /\ PcOf(p) = "cleanup_lock_update"
                     /\ DOMAIN last_update' \subseteq DOMAIN last_update
       /\ \A u \in CallerIds :
             (caller'[u] # caller[u]
                /\ (caller[u].op \in CacheBystanders
                      \/ caller'[u].op \in CacheBystanders))
               => UNCHANGED cacheVars
      ]_vars

\* C34 witness: disconnect("A") has returned ok and the court the
\* listener of "A" had cached is still in both maps
C34_Witness ==
    /\ caller["u1"].pc = "idle"
    /\ caller["u1"].op = "disconnect"
    /\ caller["u1"].ret.status = "ok"
    /\ "A" \notin DOMAIN connections
    /\ CourtA \in DOMAIN latest_data_by_court
    /\ CourtA \in DOMAIN last_update

(* ------------------------------------------------------------------ *)
(* SpecLocks: every command that takes a lock, issued by two callers  *)
(* while the listener of "A" reads, writes and reconnects             *)
(* ------------------------------------------------------------------ *)
LockFrames == {MatchFrame(JStr(CourtA), 1), CloseFrame}

NextLocks ==
    \/ CallConnect("u1", UrlHost, "A", NoFilter)
    \/ CallDisconnect("u1", "A")
    \/ CallStart("u1", "A")
    \/ CallStop("u1", "A")
    \/ CallSend("u1", "A")
    \/ CallStatus("u1", "A")
    \/ RegistryStep("u1")
    \/ LifecycleStep("u1")
    \/ CallGetCourt("u2", CourtA)
    \/ GetCourtLock("u2")
    \/ CallGetActive("u2", <<>>)
    \/ ActiveLockData("u2")
    \/ ActiveLockUpdate("u2")
    \/ CallCleanup("u2")
    \/ CleanupStep("u2")
    \/ CleanupCountLock("u2")
    \/ CallInspect("u2")
    \/ InspectLockConnections("u2")
    \/ InspectLockData("u2")
    \/ \E t \in TaskIds : ListenerStep(t)
    \/ \E t \in TaskIds : ListenerDropped(t)
    \/ \E f \in LockFrames : Deliver("A", f)

SpecLocks == Init /\ [][NextLocks]_vars

Procs == TaskIds \cup CallerIds

Locks == {"listeners", "connections", "data", "update"}

\* the order of the claim: listener table, registry, payload map,
\* timestamp map
Rank(l) ==
    CASE l = "listeners" -> 1
      [] l = "connections" -> 2
      [] l = "data" -> 3
      [] OTHER -> 4

Owner(l) ==
    CASE l = "listeners" -> listenersLock
      [] l = "connections" -> connLock
      [] l = "data" -> dataLock
      [] OTHER -> updateLock

Held(p) == {l \in Locks : Owner(l) = p}

\* the lock whose lock().await process p stands at ("" when it stands at
\* none)
Awaited(p) ==
    LET pc == PcOf(p)
    IN CASE pc \in {"loop", "store_connection", "disconnect_lock",
                    "start_lock_connections", "send_lock", "status_lock",
                    "inspect_lock_connections"} -> "connections"
         [] pc \in {"start_lock_listeners", "stop_lock"} -> "listeners"
         [] pc \in {"lock_data", "cleanup_lock_data", "get_lock",
                    "active_lock_data", "cleanup_count_lock",
                    "inspect_lock_data"} -> "data"
         [] pc \in {"lock_update", "cleanup_lock_update",
                    "active_lock_update"} -> "update"
         [] OTHER -> ""

\* p waits for a lock that another process q owns
WaitsOn(p, q) ==
    /\ p # q
    /\ Awaited(p) # ""
    /\ Owner(Awaited(p)) = q

\* q is reached from p along at most n waits
RECURSIVE ReachedBy(_, _, _)
ReachedBy(p, q, n) ==
    /\ n > 0
    /\ \E r \in Procs :
          /\ WaitsOn(p, r)
          /\ (r = q \/ ReachedBy(r, q, n - 1))

\* C35: no cycle of lock waits forms between distinct tasks: no process
\* is reached from itself along waits for locks that other processes
\* own, and a process that waits for a lock another may own holds only
\* locks that come before it in the order listener table, registry,
\* payload map, timestamp map.
C35_NoLockCycle ==
    \A p \in Procs :
        /\ ~ReachedBy(p, p, Cardinality(Procs))
        /\ (Awaited(p) # "" /\ Owner(Awaited(p)) # p)
              => \A l \in Held(p) : Rank(l) < Rank(Awaited(p))

\* C35 witness: a chain of waits between three distinct processes:
\* send waits for the registry the listener owns, and the listener
\* waits for the payload map a query owns
C35_Witness ==
    \E t \in TaskIds :
        /\ WaitsOn("u1", t)
        /\ WaitsOn(t, "u2")
        /\ Held(t) # {}
        /\ Held("u2") # {}

(* ------------------------------------------------------------------ *)
(* SpecSync: the live cache holds two courts a listener stored; one   *)
(* caller runs the commands of the court-data sync service while the  *)
(* background task syncs and time passes                              *)
(* ------------------------------------------------------------------ *)
Intervals == {1000, DefaultIntervalMs}

\* the awaits of perform_sync, for the manual sync of a caller or for the
\* background task
PerformSyncStep(p) ==
    \/ SyncFetchLockData(p)
    \/ SyncFetchLockUpdate(p)
    \/ SyncLockManager(p)
    \/ SyncLockState(p)
    \/ \E ok \in BOOLEAN : SyncPersist(p, ok)

\* the steps of background task s that are its own
SyncTaskStep(s) ==
    \/ SyncFirstTick(s)
    \/ SyncTimer(s)
    \/ SyncTaskLockState(s)
    \/ SyncErrorLockState(s)

\* courts "A" and "B" were stored at instant 0 by a listener that has
\* been stopped since
InitCached ==
    /\ connections = EmptyMap
    /\ listeners = EmptyMap
    /\ latest_data_by_court =
           [c \in {CourtA, CourtB} |-> DataObj(JStr(c), 1)]
    /\ last_update = [c \in {CourtA, CourtB} |-> 0]
    /\ connLock = Free
    /\ listenersLock = Free
    /\ dataLock = Free
    /\ updateLock = Free
    /\ task = [t \in TaskIds |-> FreeTask]
    /\ caller = [u \in CallerIds |-> IdleCaller]
    /\ inbox = [id \in ConnIds |-> <<>>]
    /\ now = 0
    /\ ticks = 0
    /\ handles = 0
    /\ filterArg = [id \in ConnIds |-> NoFilter]
    /\ InitSync

NextSync ==
    \/ \E op \in SyncOps \ {"is_running"} :
           CallSyncCommand("u2", op, DefaultIntervalMs)
    \/ SyncCommandLock("u2")
    \/ StartSyncLockState("u2")
    \/ StopSyncLockState("u2")
    \/ StatusLockState("u2")
    \/ StatusLockManager("u2")
    \/ \E p \in SyncTaskIds \cup {"u2"} : PerformSyncStep(p)
    \/ \E s \in SyncTaskIds : SyncTaskStep(s)
    \/ \E s \in SyncTaskIds : SyncTaskDropped(s)
    \/ Tick

SpecSync == InitCached /\ [][NextSync]_vars

\* C36: the sync service cannot deadlock: a status call that holds the
\* state lock and awaits the data manager never faces a background sync
\* that holds the data manager and awaits the state lock.
C36_SyncNoDeadlock ==
    \A u \in CallerIds, s \in SyncTaskIds :
        ~(/\ caller[u].pc = "status_lock_manager"
          /\ stateLock = u
          /\ managerLock = s
          /\ sync_task[s].pc = "sync_lock_state")

\* perform_sync of p returns Ok in this step
SyncReturnsOk(p) ==
    /\ Runner(p).pc \in {"fetch_lock_update", "sync_lock_state", "persist"}
    /\ IF p \in SyncTaskIds
       THEN sync_task'[p].pc = "tick"
       ELSE /\ caller'[p].pc = "idle"
            /\ caller'[p].ret.status = "ok"

\* C37: when a periodic or manual sync that fetched a non-empty set of
\* fresh courts returns Ok, the data manager holds every court it fetched.
C37_SyncKeepsCourts ==
    [][\A p \in SyncTaskIds \cup CallerIds :
          (SyncReturnsOk(p) /\ Runner(p).court_data # EmptyMap)
              => DOMAIN Runner(p).court_data \subseteq
                     DOMAIN data_manager'.data]_vars

(* ------------------------------------------------------------------ *)
(* SpecControl: one caller starts the sync service, another stops and *)
(* queries it, while the background task syncs the cached courts      *)
(* ------------------------------------------------------------------ *)
NextControl ==
    \/ \E i \in Intervals : CallSyncCommand("u1", "start_sync", i)
    \/ \E op \in {"stop_sync", "is_running"} : CallSyncCommand("u2", op, 0)
    \/ \E u \in CallerIds : SyncCommandLock(u)
    \/ \E u \in CallerIds : StartSyncLockState(u)
    \/ \E u \in CallerIds : StopSyncLockState(u)
    \/ \E u \in CallerIds : IsRunningLockState(u)
    \/ \E s \in SyncTaskIds : PerformSyncStep(s)
    \/ \E s \in SyncTaskIds : SyncTaskStep(s)
    \/ \E s \in SyncTaskIds : SyncTaskDropped(s)

SpecControl == InitCached /\ [][NextControl]_vars

\* the background tasks that were spawned and have neither left their
\* loop nor been aborted
ActiveSyncTasks == {s \in SyncTaskIds : SyncRunning(s) /\ ~sync_task[s].cancelled}

====
